---------------------------- MODULE Spec2Model ----------------------------
(***************************************************************************)
(* Prompt Enhancer: the client request pipeline (APICache,                 *)
(* RequestDeduplicator, makeRequest, enhancePromptOptimized) composed with *)
(* the server route POST /api/enhance (requestWithRetry, YAML parsing).    *)
(*                                                                         *)
(* Text is a sequence of UTF-16 code units (65 = "A", 97 = "a", 32 = " "). *)
(* `now` is the value Date.now() returns.  Timers (the 30 s abort timer,   *)
(* the backoff sleeps, the cleanup interval) run on the event loop's own   *)
(* clock, so their firing is an event of its own and not a function of     *)
(* `now`.  Durations measured with performance.now() are left out of the   *)
(* metrics records.                                                        *)
(***************************************************************************)
EXTENDS Integers, Sequences, FiniteSets, TLC

\* ---------------------------------------------------------------- constants
CACHE_TTL == 5 * 60 * 1000
MAX_CACHE_SIZE == 100
MAX_RETRIES == 3
RETRY_DELAY == 1000
REQUEST_TIMEOUT == 30000
ATTEMPTS == 3
DELAY == 750

\* ------------------------------------------------------------------- bounds
MaxCalls == 2
\* the maxSize of the APICache that is driven through its methods
SmallMaxSize == 2
\* the longest tech-stack list a fingerprint is taken of
MaxList == 2
\* the most words of a text whose language is detected

Clients == {"c1", "c2"}
\* the instants at which Date.now() is read: an entry written at 0 or 1 is
\* read younger than its ttl, exactly ttl old, and older
Instants == {0, 1, CACHE_TTL, CACHE_TTL + 1}

\* an absent optional: string-valued, text-valued, list-valued
Undefined == "undefined"
UndefinedText == <<-1>>
UndefinedList == <<UndefinedText>>
NoError == [msg |-> "", raw |-> ""]
Error(msg, raw) == [msg |-> msg, raw |-> raw]

\* ------------------------------------------------------------ text helpers
\* the white space and line terminators of String.prototype.trim and of \s
IsSpace(ch) ==
    \/ ch \in {9, 10, 11, 12, 13, 32, 160, 5760, 8232, 8233, 8239, 8287,
               12288, 65279}
    \/ (ch >= 8192 /\ ch <= 8202)

LowerChar(ch) == IF ch >= 65 /\ ch <= 90 THEN ch + 32 ELSE ch

ToLowerCase(s) == [i \in 1..Len(s) |-> LowerChar(s[i])]

RECURSIVE TrimStart(_)
TrimStart(s) ==
    IF s # <<>> /\ IsSpace(Head(s)) THEN TrimStart(Tail(s)) ELSE s

RECURSIVE TrimEnd(_)
TrimEnd(s) ==
    IF s # <<>> /\ IsSpace(s[Len(s)]) THEN TrimEnd(SubSeq(s, 1, Len(s) - 1)) ELSE s

Trim(s) == TrimEnd(TrimStart(s))

\* a < b as Array.prototype.sort compares strings: by code unit, a proper
\* prefix first
RECURSIVE StrLess(_, _)
StrLess(a, b) ==
    IF b = <<>> THEN FALSE
    ELSE IF a = <<>> THEN TRUE
    ELSE IF Head(a) # Head(b) THEN Head(a) < Head(b)
    ELSE StrLess(Tail(a), Tail(b))

RECURSIVE Insert(_, _)
Insert(x, sorted) ==
    IF sorted = <<>> THEN <<x>>
    ELSE IF StrLess(x, Head(sorted)) THEN <<x>> \o sorted
    ELSE <<Head(sorted)>> \o Insert(x, Tail(sorted))

RECURSIVE Sort(_)
Sort(list) == IF list = <<>> THEN <<>> ELSE Insert(Head(list), Sort(Tail(list)))

createCacheKey_NoTrim(params) ==
    [input |-> ToLowerCase(params.userInput),
     wordLimit |-> params.wordLimit,
     selectorPath |-> IF params.selectorPath = UndefinedText
                      THEN <<>>
                      ELSE ToLowerCase(Trim(params.selectorPath)),
     techStack |-> [frontend |-> Sort(params.techStack.frontend),
                    backend |-> Sort(params.techStack.backend),
                    database |-> Sort(params.techStack.database),
                    tools |-> Sort(params.techStack.tools),
                    uiComponents |-> IF params.techStack.uiComponents = UndefinedList
                                     THEN <<>>
                                     ELSE Sort(params.techStack.uiComponents)]]

\* the serialised object of JSON.stringify, as the record it serialises
createCacheKey(params) ==
    [input |-> ToLowerCase(Trim(params.userInput)),
     wordLimit |-> params.wordLimit,
     selectorPath |-> IF params.selectorPath = UndefinedText
                      THEN <<>>
                      ELSE ToLowerCase(Trim(params.selectorPath)),
     techStack |-> [frontend |-> Sort(params.techStack.frontend),
                    backend |-> Sort(params.techStack.backend),
                    database |-> Sort(params.techStack.database),
                    tools |-> Sort(params.techStack.tools),
                    uiComponents |-> IF params.techStack.uiComponents = UndefinedList
                                     THEN <<>>
                                     ELSE Sort(params.techStack.uiComponents)]]

\* ---------------------------------------------------------- JSON.stringify
\* the characters of a string as JSON writes them: the quote and the
\* backslash behind a backslash, the newline and the tab as \n and \t (the
\* other control characters do not occur in the texts of the model)
RECURSIVE Escaped_NoEscape(_)
Escaped_NoEscape(s) ==
    IF s = <<>> THEN <<>> ELSE <<Head(s)>> \o Escaped_NoEscape(Tail(s))

RECURSIVE Escaped(_)
Escaped(s) ==
    IF s = <<>> THEN <<>>
    ELSE (CASE Head(s) \in {34, 92} -> <<92, Head(s)>>
            [] Head(s) = 10 -> <<92, 110>>
            [] Head(s) = 9 -> <<92, 116>>
            [] OTHER -> <<Head(s)>>) \o Escaped(Tail(s))

JSONString(s) == <<34>> \o Escaped(s) \o <<34>>

\* a non-negative integer in decimal
RECURSIVE JSONNumber(_)
JSONNumber(n) ==
    IF n < 10 THEN <<48 + n>> ELSE JSONNumber(n \div 10) \o <<48 + (n % 10)>>

RECURSIVE JSONItems(_)
JSONItems(l) ==
    IF l = <<>> THEN <<>>
    ELSE IF Len(l) = 1 THEN JSONString(l[1])
    ELSE JSONString(Head(l)) \o <<44>> \o JSONItems(Tail(l))

JSONArray(l) == <<91>> \o JSONItems(l) \o <<93>>

\* JSON.stringify of the object createCacheKey builds: its properties in the
\* order of the literal, without spaces
JSONStringify(key) ==
    <<123, 34, 105, 110, 112, 117, 116, 34, 58>> \o JSONString(key.input)
    \o <<44, 34, 119, 111, 114, 100, 76, 105, 109, 105, 116, 34, 58>> \o JSONNumber(key.wordLimit)
    \o <<44, 34, 115, 101, 108, 101, 99, 116, 111, 114, 80, 97, 116, 104, 34,
        58>> \o JSONString(key.selectorPath)
    \o <<44, 34, 116, 101, 99, 104, 83, 116, 97, 99, 107, 34, 58, 123, 34,
        102, 114, 111, 110, 116, 101, 110, 100, 34, 58>> \o
        JSONArray(key.techStack.frontend)
    \o <<44, 34, 98, 97, 99, 107, 101, 110, 100, 34, 58>> \o JSONArray(key.techStack.backend)
    \o <<44, 34, 100, 97, 116, 97, 98, 97, 115, 101, 34, 58>> \o JSONArray(key.techStack.database)
    \o <<44, 34, 116, 111, 111, 108, 115, 34, 58>> \o JSONArray(key.techStack.tools)
    \o <<44, 34, 117, 105, 67, 111, 109, 112, 111, 110, 101, 110, 116, 115,
        34, 58>> \o JSONArray(key.techStack.uiComponents)
    \o <<125, 125>>

EmptyStack ==
    [frontend |-> <<>>, backend |-> <<>>, database |-> <<>>, tools |-> <<>>,
     uiComponents |-> UndefinedList]

\* the requests the callers issue: " AB" and "b"
ParamsSet ==
    {[userInput |-> <<32, 65, 66>>, wordLimit |-> 100, selectorPath |-> <<>>,
      techStack |-> EmptyStack],
     [userInput |-> <<98>>, wordLimit |-> 100, selectorPath |-> UndefinedText,
      techStack |-> EmptyStack]}

Keys == {createCacheKey(p) : p \in ParamsSet}

\* --------------------------------------------------------------- APICache
\* the Map as the sequence of its entries in insertion order
CacheIndex(c, key) ==
    IF \E i \in 1..Len(c) : c[i].key = key
    THEN CHOOSE i \in 1..Len(c) : c[i].key = key
    ELSE 0

RemoveAt(c, i) == SubSeq(c, 1, i - 1) \o SubSeq(c, i + 1, Len(c))

CacheDelete(c, key) ==
    IF CacheIndex(c, key) = 0 THEN c ELSE RemoveAt(c, CacheIndex(c, key))

MapSet(c, entry) ==
    IF CacheIndex(c, entry.key) = 0
    THEN Append(c, entry)
    ELSE [c EXCEPT ![CacheIndex(c, entry.key)] = entry]

CacheSet_EvictNewest(c, size, key, data, ttl, t) ==
    LET c1 == IF Len(c) >= size /\ c # <<>> THEN SubSeq(c, 1, Len(c) - 1) ELSE c
    IN MapSet(c1, [key |-> key, data |-> data, timestamp |-> t, ttl |-> ttl])

CacheSet(c, size, key, data, ttl, t) ==
    LET c1 == IF Len(c) >= size /\ c # <<>> THEN Tail(c) ELSE c
    IN MapSet(c1, [key |-> key, data |-> data, timestamp |-> t, ttl |-> ttl])

Expired_AtTtl(entry, t) == t - entry.timestamp >= entry.ttl

Expired(entry, t) == t - entry.timestamp > entry.ttl

\* get(key): TRUE when an entry is served
CacheHas(c, key, t) ==
    CacheIndex(c, key) # 0 /\ ~Expired(c[CacheIndex(c, key)], t)

CacheData(c, key) == c[CacheIndex(c, key)].data

CacheAfterGet_Keep(c, key, t) == c

\* the Map after get(key): an expired entry is deleted
CacheAfterGet(c, key, t) ==
    IF CacheIndex(c, key) # 0 /\ Expired(c[CacheIndex(c, key)], t)
    THEN CacheDelete(c, key)
    ELSE c

RECURSIVE CacheCleanup(_, _)
CacheCleanup(c, t) ==
    IF c = <<>> THEN <<>>
    ELSE IF Expired(Head(c), t) THEN CacheCleanup(Tail(c), t)
    ELSE <<Head(c)>> \o CacheCleanup(Tail(c), t)

\* ------------------------------------------------------------------- state
VARIABLES
    now,                 \* Date.now()
    calls,               \* enhancePromptOptimized / preloadCache calls so far
    cache,               \* apiCache.cache
    maxSize,             \* apiCache.maxSize
    pendingRequests,     \* requestDeduplicator.pendingRequests: key -> promise
    performanceHistory,  \* performanceHistory
    caller,              \* each caller: idle, or awaiting a promise
    outcome,             \* how each caller's last enhancePromptOptimized settled
    req,                 \* the request function a caller started (its promise)
    srv,                 \* the route handler of that request's outstanding POST
    returned,            \* what the last call of an APICache method returned
    inserted,            \* the keys of an APICache, the oldest insertion first
    requestParams,       \* the EnhancePromptParams object a caller holds
    fingerprint,         \* what createCacheKey(params) returned last
    form,                \* the enhance form: its fields and what it shows
    text,                \* the text detectLanguage is called with
    detection,           \* what detectLanguage(text) returned
    translationCache,    \* translationCache of the translation service
    post,                \* the POST handler around its translation step
    cleanedContent,      \* the upstream content on its way to yaml.load
    parsed,              \* the document yaml.load returned, being cleaned
    fetches              \* the fetches made for the call in progress, counted

\* the client pipeline and the route handler
clientVars == <<now, calls, cache, maxSize, pendingRequests,
                performanceHistory, caller, outcome, req, srv>>

\* an APICache driven through its methods
apiVars == <<returned, inserted>>

\* a caller of createCacheKey
keyVars == <<requestParams, fingerprint>>

\* a caller of detectLanguage
detectVars == <<text, detection>>

\* the translation service and the route handler that calls it
translateVars == <<translationCache, post>>

\* the route's treatment of the upstream content
yamlVars == <<cleanedContent, parsed>>

\* what a step of the client pipeline or of the route handler leaves alone
outsideRoute == <<apiVars, keyVars, form, detectVars, translateVars, yamlVars>>

\* what the client pipeline leaves alone
outside == <<outsideRoute, fetches>>

\* what a call of an APICache method leaves alone, besides the client pipeline
outsideCache == <<keyVars, form, detectVars, translateVars, yamlVars,
                  fetches>>

\* what a call of createCacheKey leaves alone
outsideKey == <<clientVars, apiVars, form, detectVars, translateVars,
               yamlVars, fetches>>

\* what the enhance form and the client pipeline under it leave alone
outsideForm == <<apiVars, keyVars, detectVars, translateVars, yamlVars,
                 fetches>>

\* what a call of detectLanguage leaves alone
outsideDetect == <<clientVars, apiVars, keyVars, form, translateVars,
                  yamlVars, fetches>>

\* what the route handler leaves alone up to its first upstream fetch
outsideTranslate == <<now, calls, cache, maxSize, pendingRequests,
                      performanceHistory, caller, outcome, req,
                      apiVars, keyVars, form, detectVars, yamlVars, fetches>>

\* what a step of the treatment of the upstream content leaves alone
outsideYaml == <<clientVars, apiVars, keyVars, form, detectVars, translateVars,
                 fetches>>

vars == <<clientVars, outside>>

NoParams == CHOOSE p \in ParamsSet : TRUE
NoResult == [yaml |-> Undefined, metrics |-> [cacheHit |-> FALSE, error |-> Undefined],
             fromCache |-> FALSE]
NoResponse == [ok |-> FALSE, yaml |-> Undefined, error |-> NoError]

Idle == [pc |-> "idle", promise |-> "none"]
NoOutcome == [kind |-> "none", value |-> NoResult, error |-> NoError]
NoReq == [pc |-> "none", params |-> NoParams, key |-> createCacheKey(NoParams),
          attempt |-> 0, delay |-> 0, result |-> NoResult, error |-> NoError]
NoSrv == [pc |-> "none", attempt |-> 0, delay |-> 0, response |-> NoResponse]
NoReturn == [op |-> "none", value |-> Undefined]
NoFingerprint == [input |-> UndefinedText]
NoDetection == [language |-> "none"]
NoCompletion == [kind |-> "none"]
NoContent == [content |-> <<>>, passes |-> 0, value |-> <<>>]
NoDocument ==
    [document |-> [tech_stack |-> [kind |-> "absent"], selector_path |-> <<-1>>],
     passes |-> 0,
     value |-> [tech_stack |-> [kind |-> "absent"], selector_path |-> <<-1>>]]
NoFetches == [posts |-> 0, upstream |-> 0, onlyUpstreamErrors |-> TRUE]
NoPost == [pc |-> "none", body |-> [userInput |-> <<>>],
           translation |-> NoCompletion,
           processedBody |-> [userInput |-> <<>>],
           response |-> NoResponse, served |-> 0]
NoValues == [input |-> <<>>, wordLimit |-> 100, selectorPath |-> <<>>]
NoForm == [values |-> NoValues, errors |-> {}, isLoading |-> FALSE,
           submitted |-> NoValues, result |-> Undefined, error |-> Undefined,
           cacheRef |-> {}]

Init ==
    /\ now = 0
    /\ calls = 0
    /\ cache = <<>>
    /\ maxSize = MAX_CACHE_SIZE
    /\ pendingRequests = <<>>
    /\ performanceHistory = <<>>
    /\ caller = [c \in Clients |-> Idle]
    /\ outcome = [c \in Clients |-> NoOutcome]
    /\ req = [c \in Clients |-> NoReq]
    /\ srv = [c \in Clients |-> NoSrv]
    /\ fetches = NoFetches
    /\ returned = NoReturn
    /\ inserted = <<>>
    /\ requestParams = NoParams
    /\ fingerprint = NoFingerprint
    /\ form = NoForm
    /\ text = <<>>
    /\ detection = NoDetection
    /\ translationCache = <<>>
    /\ post = NoPost
    /\ cleanedContent = NoContent
    /\ parsed = NoDocument

\* ---------------------------------------------------- RequestDeduplicator
\* pendingRequests is the sequence of its <<key, promise>> entries
PendingHas(pending, key) == \E i \in 1..Len(pending) : pending[i][1] = key

PendingGet(pending, key) ==
    pending[CHOOSE i \in 1..Len(pending) : pending[i][1] = key][2]

PendingSet(pending, key, promise) ==
    IF PendingHas(pending, key)
    THEN [i \in 1..Len(pending) |->
            IF pending[i][1] = key THEN <<key, promise>> ELSE pending[i]]
    ELSE Append(pending, <<key, promise>>)

RECURSIVE PendingDelete(_, _)
PendingDelete(pending, key) ==
    IF pending = <<>> THEN <<>>
    ELSE IF Head(pending)[1] = key THEN Tail(pending)
    ELSE <<Head(pending)>> \o PendingDelete(Tail(pending), key)

\* ------------------------------------------------------------- the server
Contents == {"c1", "c2", "bad", ""}

UpstreamOutcomes ==
    [kind : {"ok"}, content : Contents]
        \cup [kind : {"payloadError", "429", "500", "network"}, content : {""}]

\* yaml.load, the clean-up and yaml.dump of the route: the document of a
\* content that parses, Undefined when yaml.load throws
FormattedYaml(content) ==
    CASE content = "c1" -> "y1"
      [] content = "c2" -> "y2"
      [] OTHER -> Undefined

\* the POST handler from its entry to the first upstream fetch
POSTStart == [pc |-> "upstream", attempt |-> 1, delay |-> 0, response |-> NoResponse]

POSTAfterPayload_NoRaw(s, content) ==
    IF content = ""
    THEN [s EXCEPT !.pc = "responded",
                   !.response = [ok |-> FALSE, yaml |-> Undefined,
                                 error |-> Error("The API returned an empty response.", "")]]
    ELSE IF FormattedYaml(content) = Undefined
    THEN [s EXCEPT !.pc = "responded",
                   !.response = [ok |-> FALSE, yaml |-> Undefined,
                                 error |-> Error("Failed to parse YAML from API response.", "")]]
    ELSE [s EXCEPT !.pc = "responded",
                   !.response = [ok |-> TRUE, yaml |-> FormattedYaml(content),
                                 error |-> NoError]]

\* the handler after requestWithRetry returned payload
POSTAfterPayload(s, content) ==
    IF content = ""
    THEN [s EXCEPT !.pc = "responded",
                   !.response = [ok |-> FALSE, yaml |-> Undefined,
                                 error |-> Error("The API returned an empty response.", "")]]
    ELSE IF FormattedYaml(content) = Undefined
    THEN [s EXCEPT !.pc = "responded",
                   !.response = [ok |-> FALSE, yaml |-> Undefined,
                                 error |-> Error("Failed to parse YAML from API response.", content)]]
    ELSE [s EXCEPT !.pc = "responded",
                   !.response = [ok |-> TRUE, yaml |-> FormattedYaml(content),
                                 error |-> NoError]]

RetryCatch_OneMore(s, msg) ==
    IF s.attempt > ATTEMPTS
    THEN [s EXCEPT !.pc = "responded",
                   !.response = [ok |-> FALSE, yaml |-> Undefined,
                                 error |-> Error(msg, "")]]
    ELSE [s EXCEPT !.pc = "backoff", !.delay = DELAY * s.attempt]

\* the catch block of requestWithRetry, then the outer catch of POST
RetryCatch(s, msg) ==
    IF s.attempt = ATTEMPTS
    THEN [s EXCEPT !.pc = "responded",
                   !.response = [ok |-> FALSE, yaml |-> Undefined,
                                 error |-> Error(msg, "")]]
    ELSE [s EXCEPT !.pc = "backoff", !.delay = DELAY * s.attempt]

requestWithRetry_ShrinkingDelay(s, o) ==
    CASE o.kind = "network" -> RetryCatch(s, "fetch failed")
      [] o.kind = "429" ->
            IF s.attempt < ATTEMPTS
            THEN [s EXCEPT !.pc = "backoff", !.delay = DELAY * (ATTEMPTS - s.attempt)]
            ELSE RetryCatch(s, "API error 429")
      [] o.kind = "500" -> RetryCatch(s, "API error 500")
      [] o.kind = "payloadError" -> RetryCatch(s, "Unknown API error")
      [] OTHER -> POSTAfterPayload(s, o.content)

requestWithRetry_PayloadFatal(s, o) ==
    CASE o.kind = "network" -> RetryCatch(s, "fetch failed")
      [] o.kind = "429" ->
            IF s.attempt < ATTEMPTS
            THEN [s EXCEPT !.pc = "backoff", !.delay = DELAY * s.attempt]
            ELSE RetryCatch(s, "API error 429")
      [] o.kind = "500" -> RetryCatch(s, "API error 500")
      [] o.kind = "payloadError" ->
            [s EXCEPT !.pc = "responded",
                      !.response = [ok |-> FALSE, yaml |-> Undefined,
                                    error |-> Error("Unknown API error", "")]]
      [] OTHER -> POSTAfterPayload(s, o.content)

\* one iteration of the loop of requestWithRetry on the upstream's answer
requestWithRetry(s, o) ==
    CASE o.kind = "network" -> RetryCatch(s, "fetch failed")
      [] o.kind = "429" ->
            IF s.attempt < ATTEMPTS
            THEN [s EXCEPT !.pc = "backoff", !.delay = DELAY * s.attempt]
            ELSE RetryCatch(s, "API error 429")
      [] o.kind = "500" -> RetryCatch(s, "API error 500")
      [] o.kind = "payloadError" -> RetryCatch(s, "Unknown API error")
      [] OTHER -> POSTAfterPayload(s, o.content)

UpstreamRespond(c, o) ==
    /\ srv[c].pc = "upstream"
    /\ srv' = [srv EXCEPT ![c] = requestWithRetry(srv[c], o)]
    /\ UNCHANGED <<now, calls, cache, maxSize, pendingRequests,
                   performanceHistory, caller, outcome, req>>

ServerSleepDone(c) ==
    /\ srv[c].pc = "backoff"
    /\ srv' = [srv EXCEPT ![c] = [@ EXCEPT !.pc = "upstream", !.attempt = @ + 1]]
    /\ UNCHANGED <<now, calls, cache, maxSize, pendingRequests,
                   performanceHistory, caller, outcome, req>>

\* ------------------------------------------------------------- makeRequest
Jitter == {0, 999}

getRetryDelay(attempt, random) == RETRY_DELAY * (2 ^ (attempt - 1)) + random

\* answers to the POST that the route handler does not give: a 200 whose
\* body carries an error field, a 200 without yaml, a non-2xx without a JSON
\* body
OtherResponses ==
    {[ok |-> TRUE, yaml |-> Undefined, error |-> Error("upstream says no", "")],
     [ok |-> TRUE, yaml |-> "", error |-> NoError],
     [ok |-> FALSE, yaml |-> Undefined, error |-> NoError]}

\* answers the route handler gives: a document, or a 500 with its message
RouteResponses ==
    {[ok |-> TRUE, yaml |-> "y1", error |-> NoError],
     [ok |-> TRUE, yaml |-> "y2", error |-> NoError],
     [ok |-> FALSE, yaml |-> Undefined, error |-> Error("API error 500", "")]}

Responses == RouteResponses \cup OtherResponses

\* what the try block of makeRequest throws on the response, NoError when it
\* returns data
Thrown(r) ==
    IF ~r.ok
    THEN IF r.error = NoError
         THEN Error("API request failed with status", "")
         ELSE r.error
    ELSE IF r.error # NoError /\ r.error.msg # ""
    THEN r.error
    ELSE IF r.yaml = Undefined \/ r.yaml = ""
    THEN Error("The API returned an empty response.", "")
    ELSE NoError

PushHistory(history, metrics) ==
    LET h == Append(history, metrics)
    IN IF Len(h) > 1000 THEN SubSeq(h, Len(h) - 999, Len(h)) ELSE h

RequestReturned_NoCache(c, data) ==
    LET metrics == [cacheHit |-> FALSE, error |-> Undefined]
        result == [yaml |-> data.yaml, metrics |-> metrics, fromCache |-> FALSE]
    IN /\ UNCHANGED cache
       /\ performanceHistory' = PushHistory(performanceHistory, metrics)
       /\ req' = [req EXCEPT ![c] = [@ EXCEPT !.pc = "returned", !.result = result]]

\* the request function of enhancePromptOptimized once makeRequest returned
\* data: the result is cached and the metrics are recorded
RequestReturned(c, data) ==
    LET metrics == [cacheHit |-> FALSE, error |-> Undefined]
        result == [yaml |-> data.yaml, metrics |-> metrics, fromCache |-> FALSE]
    IN /\ cache' = CacheSet(cache, maxSize, req[c].key, result, CACHE_TTL, now)
       /\ performanceHistory' = PushHistory(performanceHistory, metrics)
       /\ req' = [req EXCEPT ![c] = [@ EXCEPT !.pc = "returned", !.result = result]]

RequestThrew_Cached(c, e) ==
    /\ performanceHistory' =
          PushHistory(performanceHistory, [cacheHit |-> FALSE, error |-> e.msg])
    /\ req' = [req EXCEPT ![c] = [@ EXCEPT !.pc = "threw", !.error = e]]
    /\ cache' = CacheSet(cache, maxSize, req[c].key,
                         [NoResult EXCEPT !.metrics.error = e.msg], CACHE_TTL, now)

\* the request function once makeRequest threw: the metrics carry the message
RequestThrew(c, e) ==
    /\ performanceHistory' =
          PushHistory(performanceHistory, [cacheHit |-> FALSE, error |-> e.msg])
    /\ req' = [req EXCEPT ![c] = [@ EXCEPT !.pc = "threw", !.error = e]]
    /\ UNCHANGED cache

MakeRequestCatch_OffByOne(c, e, random) ==
    IF req[c].attempt > MAX_RETRIES
    THEN RequestThrew(c, e)
    ELSE /\ req' = [req EXCEPT ![c] =
                      [@ EXCEPT !.pc = "sleep",
                                !.delay = getRetryDelay(req[c].attempt, random)]]
         /\ UNCHANGED <<cache, performanceHistory>>

\* the catch block of makeRequest for an error that is no AbortError
MakeRequestCatch(c, e, random) ==
    IF req[c].attempt >= MAX_RETRIES
    THEN RequestThrew(c, e)
    ELSE /\ req' = [req EXCEPT ![c] =
                      [@ EXCEPT !.pc = "sleep",
                                !.delay = getRetryDelay(req[c].attempt, random)]]
         /\ UNCHANGED <<cache, performanceHistory>>

\* makeRequest from the response of its fetch on
makeRequest(c, r, random) ==
    IF Thrown(r) = NoError
    THEN RequestReturned(c, r)
    ELSE MakeRequestCatch(c, Thrown(r), random)

\* the route handler's response reaches the client
RouteResponds(c) ==
    /\ req[c].pc = "fetch"
    /\ srv[c].pc = "responded"
    /\ \E random \in Jitter : makeRequest(c, srv[c].response, random)
    /\ srv' = [srv EXCEPT ![c] = NoSrv]
    /\ UNCHANGED <<now, calls, maxSize, pendingRequests, caller, outcome>>

\* an answer to the POST reaches the client
Responds(c, r) ==
    /\ req[c].pc = "fetch"
    /\ \E random \in Jitter : makeRequest(c, r, random)
    /\ srv' = [srv EXCEPT ![c] = NoSrv]
    /\ UNCHANGED <<now, calls, maxSize, pendingRequests, caller, outcome>>

\* fetch rejects: a network failure
FetchFails(c) ==
    /\ req[c].pc = "fetch"
    /\ \E random \in Jitter :
          MakeRequestCatch(c, Error("Failed to fetch", ""), random)
    /\ srv' = [srv EXCEPT ![c] = NoSrv]
    /\ UNCHANGED <<now, calls, maxSize, pendingRequests, caller, outcome>>

Timeout_Retried(c) ==
    /\ req[c].pc = "fetch"
    /\ \E random \in Jitter :
          MakeRequestCatch(c, Error("Request timeout - please try again", ""), random)
    /\ srv' = [srv EXCEPT ![c] = NoSrv]
    /\ UNCHANGED <<now, calls, maxSize, pendingRequests, caller, outcome>>

\* the REQUEST_TIMEOUT timer fires while the fetch is outstanding: fetch
\* rejects with an AbortError
Timeout(c) ==
    /\ req[c].pc = "fetch"
    /\ RequestThrew(c, Error("Request timeout - please try again", ""))
    /\ srv' = [srv EXCEPT ![c] = NoSrv]
    /\ UNCHANGED <<now, calls, maxSize, pendingRequests, caller, outcome>>

\* the backoff sleep ends: makeRequest(params, attempt + 1) posts again
SleepDone(c) ==
    /\ req[c].pc = "sleep"
    /\ req' = [req EXCEPT ![c] =
                  [@ EXCEPT !.pc = "fetch", !.attempt = @ + 1, !.delay = 0]]
    /\ srv' = [srv EXCEPT ![c] = POSTStart]
    /\ UNCHANGED <<now, calls, cache, maxSize, pendingRequests,
                   performanceHistory, caller, outcome>>

\* --------------------------------------------------- enhancePromptOptimized
Awaiting(c) == {w \in Clients : caller[w].pc = "await" /\ caller[w].promise = c}

StartRequest_NoRegister(c, params) ==
    /\ req' = [req EXCEPT ![c] =
                  [NoReq EXCEPT !.pc = "fetch", !.params = params,
                                !.key = createCacheKey(params), !.attempt = 1]]
    /\ srv' = [srv EXCEPT ![c] = POSTStart]
    /\ UNCHANGED pendingRequests
    /\ caller' = [caller EXCEPT ![c] = [pc |-> "await", promise |-> c]]

\* deduplicate(key, requestFn) for a key that is not pending: requestFn runs
\* to its first fetch and its promise is registered
StartRequest(c, params) ==
    /\ req' = [req EXCEPT ![c] =
                  [NoReq EXCEPT !.pc = "fetch", !.params = params,
                                !.key = createCacheKey(params), !.attempt = 1]]
    /\ srv' = [srv EXCEPT ![c] = POSTStart]
    /\ pendingRequests' = PendingSet(pendingRequests, createCacheKey(params), c)
    /\ caller' = [caller EXCEPT ![c] = [pc |-> "await", promise |-> c]]

deduplicate_NoCheck(c, params) == StartRequest(c, params)

deduplicate(c, params) ==
    IF PendingHas(pendingRequests, createCacheKey(params))
    THEN /\ caller' = [caller EXCEPT ![c] =
                         [pc |-> "await",
                          promise |-> PendingGet(pendingRequests, createCacheKey(params))]]
         /\ UNCHANGED <<req, srv, pendingRequests>>
    ELSE StartRequest(c, params)

enhancePromptOptimized(c, params) ==
    /\ caller[c].pc = "idle"
    /\ req[c].pc = "none"
    /\ calls < MaxCalls
    /\ calls' = calls + 1
    /\ cache' = CacheAfterGet(cache, createCacheKey(params), now)
    /\ IF CacheHas(cache, createCacheKey(params), now)
       THEN /\ outcome' = [outcome EXCEPT ![c] =
                  [kind |-> "ok",
                   value |-> [CacheData(cache, createCacheKey(params)) EXCEPT
                                 !.metrics = [cacheHit |-> TRUE, error |-> Undefined],
                                 !.fromCache = TRUE],
                   error |-> NoError]]
            /\ UNCHANGED <<req, srv, pendingRequests, caller>>
       ELSE /\ deduplicate(c, params)
            /\ outcome' = [outcome EXCEPT ![c] = NoOutcome]
    /\ UNCHANGED <<now, maxSize, performanceHistory>>

\* preloadCache([params]): nothing is requested for a cached key
preloadCache(c, params) ==
    /\ caller[c].pc = "idle"
    /\ req[c].pc = "none"
    /\ calls < MaxCalls
    /\ IF CacheHas(cache, createCacheKey(params), now)
       THEN /\ calls' = calls + 1
            /\ outcome' = [outcome EXCEPT ![c] = NoOutcome]
            /\ UNCHANGED <<now, cache, maxSize, pendingRequests,
                           performanceHistory, caller, req, srv>>
       ELSE enhancePromptOptimized(c, params)

Settle_ThenOnly(c) ==
    /\ req[c].pc \in {"returned", "threw"}
    /\ pendingRequests' = IF req[c].pc = "returned"
                          THEN PendingDelete(pendingRequests, req[c].key)
                          ELSE pendingRequests
    /\ outcome' = [w \in Clients |->
          IF w \in Awaiting(c)
          THEN IF req[c].pc = "returned"
               THEN [kind |-> "ok", value |-> req[c].result, error |-> NoError]
               ELSE [kind |-> "err", value |-> NoResult, error |-> req[c].error]
          ELSE outcome[w]]
    /\ caller' = [w \in Clients |-> IF w \in Awaiting(c) THEN Idle ELSE caller[w]]
    /\ req' = [req EXCEPT ![c] = NoReq]
    /\ UNCHANGED <<now, calls, cache, maxSize, performanceHistory, srv>>

\* the finally callback of deduplicate, and the promise settling for every
\* caller that awaits it
Settle(c) ==
    /\ req[c].pc \in {"returned", "threw"}
    /\ pendingRequests' = PendingDelete(pendingRequests, req[c].key)
    /\ outcome' = [w \in Clients |->
          IF w \in Awaiting(c)
          THEN IF req[c].pc = "returned"
               THEN [kind |-> "ok", value |-> req[c].result, error |-> NoError]
               ELSE [kind |-> "err", value |-> NoResult, error |-> req[c].error]
          ELSE outcome[w]]
    /\ caller' = [w \in Clients |-> IF w \in Awaiting(c) THEN Idle ELSE caller[w]]
    /\ req' = [req EXCEPT ![c] = NoReq]
    /\ UNCHANGED <<now, calls, cache, maxSize, performanceHistory, srv>>

\* ------------------------------------------------------ cache maintenance
clearCache_DropsPending ==
    /\ cache # <<>> \/ performanceHistory # <<>>
    /\ cache' = <<>>
    /\ performanceHistory' = <<>>
    /\ pendingRequests' = <<>>
    /\ UNCHANGED <<now, calls, maxSize, caller, outcome, req, srv>>

clearCache ==
    /\ cache # <<>> \/ performanceHistory # <<>>
    /\ cache' = <<>>
    /\ performanceHistory' = <<>>
    /\ UNCHANGED <<now, calls, maxSize, pendingRequests, caller, outcome,
                   req, srv>>

\* the setInterval callback
cleanup ==
    /\ cache' = CacheCleanup(cache, now)
    /\ cache' # cache
    /\ UNCHANGED <<now, calls, maxSize, pendingRequests,
                   performanceHistory, caller, outcome, req, srv>>

Tick(t) ==
    /\ t > now
    /\ now' = t
    /\ UNCHANGED <<calls, cache, maxSize, pendingRequests, performanceHistory,
                   caller, outcome, req, srv>>

Next ==
    \/ \E c \in Clients, p \in ParamsSet : enhancePromptOptimized(c, p) /\ UNCHANGED outside
    \/ \E c \in Clients, p \in ParamsSet : preloadCache(c, p) /\ UNCHANGED outside
    \/ \E c \in Clients, r \in Responses : Responds(c, r) /\ UNCHANGED outside
    \/ \E c \in Clients : FetchFails(c) /\ UNCHANGED outside
    \/ \E c \in Clients : Timeout(c) /\ UNCHANGED outside
    \/ \E c \in Clients : SleepDone(c) /\ UNCHANGED outside
    \/ \E c \in Clients : Settle(c) /\ UNCHANGED outside
    \/ clearCache /\ UNCHANGED outside
    \/ cleanup /\ UNCHANGED outside
    \/ \E t \in Instants : Tick(t) /\ UNCHANGED outside

Spec == Init /\ [][Next]_vars

\* the client and the route handler together: one caller, every POST
\* answered by the handler or by something in front of it, or cut short by a
\* network failure or the timer
Route == "c1"

\* the count of a call that starts: its first POST and that POST's first
\* upstream fetch when it has to fetch, nothing when the cache answers
FetchesOfCall(started) ==
    IF started
    THEN [posts |-> 1, upstream |-> 1, onlyUpstreamErrors |-> TRUE]
    ELSE NoFetches

\* the steps of NextRoute with the fetches they make counted: a POST and an
\* upstream fetch where the client starts an attempt, an upstream fetch where
\* the route starts one
NextRoute ==
    \/ \E p \in ParamsSet :
          /\ enhancePromptOptimized(Route, p)
          /\ fetches' = FetchesOfCall(req'[Route].pc = "fetch")
          /\ UNCHANGED outsideRoute
    \/ \E o \in UpstreamOutcomes :
          /\ UpstreamRespond(Route, o)
          /\ fetches' = [fetches EXCEPT !.onlyUpstreamErrors =
                                           @ /\ o.kind \in {"429", "500"}]
          /\ UNCHANGED outsideRoute
    \/ /\ ServerSleepDone(Route)
       /\ fetches' = [fetches EXCEPT !.upstream = @ + 1]
       /\ UNCHANGED outsideRoute
    \/ RouteResponds(Route) /\ UNCHANGED outside
    \/ \E r \in OtherResponses :
          /\ Responds(Route, r)
          /\ fetches' = [fetches EXCEPT !.onlyUpstreamErrors = FALSE]
          /\ UNCHANGED outsideRoute
    \/ /\ FetchFails(Route)
       /\ fetches' = [fetches EXCEPT !.onlyUpstreamErrors = FALSE]
       /\ UNCHANGED outsideRoute
    \/ /\ Timeout(Route)
       /\ fetches' = [fetches EXCEPT !.onlyUpstreamErrors = FALSE]
       /\ UNCHANGED outsideRoute
    \/ /\ SleepDone(Route)
       /\ fetches' = [fetches EXCEPT !.posts = @ + 1, !.upstream = @ + 1]
       /\ UNCHANGED outsideRoute
    \/ Settle(Route) /\ UNCHANGED outside

SpecRoute == Init /\ [][NextRoute]_vars

\* ------------------------------------------------- APICache by its methods
\* an APICache constructed with a small maxSize, its methods called in any
\* order while the clock advances
CacheKeys == {"k1", "k2", "k3"}
CacheValues == {"v1", "v2"}
Ttls == {1, CACHE_TTL}
Null == "null"

CacheKeysOf(c) == [i \in 1..Len(c) |-> c[i].key]

WithoutKey(keys, key) == SelectSeq(keys, LAMBDA k : k # key)

\* the keys in the order of their insertion: a key joins at the end when it
\* is set while absent, and leaves when its entry is deleted
InsertedAfterSet(keys, size, key) ==
    LET kept == IF Len(keys) >= size /\ keys # <<>> THEN Tail(keys) ELSE keys
    IN IF \E i \in 1..Len(kept) : kept[i] = key THEN kept ELSE Append(kept, key)

APICache_set(key, data, ttl) ==
    /\ cache' = CacheSet(cache, maxSize, key, data, ttl, now)
    /\ returned' = [op |-> "set", value |-> Undefined,
                    firstKey |-> IF Len(cache) >= maxSize /\ cache # <<>>
                                 THEN Head(cache).key
                                 ELSE Undefined]
    /\ inserted' = InsertedAfterSet(inserted, maxSize, key)
    /\ UNCHANGED <<now, calls, maxSize, pendingRequests, performanceHistory,
                   caller, outcome, req, srv>>

APICache_get(key) ==
    /\ cache' = CacheAfterGet(cache, key, now)
    /\ returned' = [op |-> "get",
                    value |-> IF CacheHas(cache, key, now)
                              THEN CacheData(cache, key)
                              ELSE Null]
    /\ inserted' = IF CacheHas(cache, key, now)
                   THEN inserted
                   ELSE WithoutKey(inserted, key)
    /\ UNCHANGED <<now, calls, maxSize, pendingRequests, performanceHistory,
                   caller, outcome, req, srv>>

APICache_clear ==
    /\ cache' = <<>>
    /\ returned' = [op |-> "clear", value |-> Undefined]
    /\ inserted' = <<>>
    /\ UNCHANGED <<now, calls, maxSize, pendingRequests, performanceHistory,
                   caller, outcome, req, srv>>

APICache_size ==
    /\ returned' = [op |-> "size", size |-> Len(cache)]
    /\ UNCHANGED <<now, calls, cache, maxSize, pendingRequests,
                   performanceHistory, caller, outcome, req, srv, inserted>>

APICache_cleanup ==
    /\ cache' = CacheCleanup(cache, now)
    /\ returned' = [op |-> "cleanup", value |-> Undefined]
    /\ inserted' = SelectSeq(inserted,
                             LAMBDA k : \E i \in 1..Len(cache') : cache'[i].key = k)
    /\ UNCHANGED <<now, calls, maxSize, pendingRequests, performanceHistory,
                   caller, outcome, req, srv>>

InitCache ==
    /\ now = 0
    /\ calls = 0
    /\ cache = <<>>
    /\ maxSize = SmallMaxSize
    /\ pendingRequests = <<>>
    /\ performanceHistory = <<>>
    /\ caller = [c \in Clients |-> Idle]
    /\ outcome = [c \in Clients |-> NoOutcome]
    /\ req = [c \in Clients |-> NoReq]
    /\ srv = [c \in Clients |-> NoSrv]
    /\ fetches = NoFetches
    /\ returned = NoReturn
    /\ inserted = <<>>
    /\ requestParams = NoParams
    /\ fingerprint = NoFingerprint
    /\ form = NoForm
    /\ text = <<>>
    /\ detection = NoDetection
    /\ translationCache = <<>>
    /\ post = NoPost
    /\ cleanedContent = NoContent
    /\ parsed = NoDocument

NextCache ==
    \/ \E key \in CacheKeys, data \in CacheValues, ttl \in Ttls :
          APICache_set(key, data, ttl) /\ UNCHANGED outsideCache
    \/ \E key \in CacheKeys : APICache_get(key) /\ UNCHANGED outsideCache
    \/ APICache_clear /\ UNCHANGED outsideCache
    \/ APICache_size /\ UNCHANGED outsideCache
    \/ APICache_cleanup /\ UNCHANGED outsideCache
    \/ \E t \in Instants : Tick(t) /\ UNCHANGED outside

SpecCache == InitCache /\ [][NextCache]_vars

\* ------------------------------------------------ createCacheKey by itself
\* the objects a caller passes: "ab", " AB" and "b" as the text; no selector,
\* " ", "p" and "P " as the selector path; one category of the tech stack
\* holding a list of "a", "A", " a" and "b"
KeyTexts == {<<97, 98>>, <<32, 65, 66>>, <<98>>}
KeySelectors == {UndefinedText, <<32>>, <<112>>, <<80, 32>>}
WordLimits == {100, 500}
Categories == {"frontend", "backend", "database", "tools", "uiComponents"}
Elements == {<<97>>, <<65>>, <<32, 97>>, <<98>>}
KeyLists == UNION {[1..n -> Elements] : n \in 0..MaxList}

KeyParams ==
    {[userInput |-> t, wordLimit |-> w, selectorPath |-> sp,
      techStack |-> [EmptyStack EXCEPT ![cat] = l]] :
        t \in KeyTexts, w \in WordLimits, sp \in KeySelectors,
        cat \in Categories, l \in KeyLists}

ParamsAfterKey_InPlace(p) ==
    [p EXCEPT !.techStack = [cat \in Categories |->
                                IF p.techStack[cat] = UndefinedList
                                THEN UndefinedList
                                ELSE Sort(p.techStack[cat])]]

\* the caller's object once createCacheKey returned: sort() sorts the array
\* it is called on, which is the copy the spread made of each list
ParamsAfterKey(p) == p

CallCreateCacheKey ==
    /\ fingerprint' = createCacheKey(requestParams)
    /\ requestParams' = ParamsAfterKey(requestParams)
    /\ UNCHANGED outsideKey

InitKey ==
    /\ now = 0
    /\ calls = 0
    /\ cache = <<>>
    /\ maxSize = MAX_CACHE_SIZE
    /\ pendingRequests = <<>>
    /\ performanceHistory = <<>>
    /\ caller = [c \in Clients |-> Idle]
    /\ outcome = [c \in Clients |-> NoOutcome]
    /\ req = [c \in Clients |-> NoReq]
    /\ srv = [c \in Clients |-> NoSrv]
    /\ fetches = NoFetches
    /\ returned = NoReturn
    /\ inserted = <<>>
    /\ requestParams \in KeyParams
    /\ fingerprint = NoFingerprint
    /\ form = NoForm
    /\ text = <<>>
    /\ detection = NoDetection
    /\ translationCache = <<>>
    /\ post = NoPost
    /\ cleanedContent = NoContent
    /\ parsed = NoDocument

NextKey == CallCreateCacheKey

SpecKey == InitKey /\ [][NextKey]_vars

\* ---------------------------------------------------------- the enhance form
\* a text of n code units
Rep(ch, n) == [i \in 1..n |-> ch]

\* what the user leaves in the fields: a text of 9, 10, 4000 or 4001
\* characters; as the selector nothing, ".a", "> a", "a >" or "["
FormValues ==
    {[input |-> Rep(97, n), wordLimit |-> 100, selectorPath |-> <<>>] :
        n \in {9, 10, 4000, 4001}}
    \cup {[input |-> Rep(97, 10), wordLimit |-> 100, selectorPath |-> sp] :
            sp \in {<<46, 97>>, <<62, 32, 97>>, <<97, 32, 62>>, <<91>>}}

\* document.querySelector(trimmed) returns: "[" makes it throw a SyntaxError
QuerySelectorAccepts(trimmed) == trimmed # <<91>>

IsCombinator(ch) == ch \in {62, 43, 126}

\* the refinement of enhanceSchema.selectorPath
SelectorValid(value) ==
    IF value = UndefinedText \/ value = <<>> \/ Trim(value) = <<>>
    THEN TRUE
    ELSE LET trimmed == Trim(value)
         IN /\ ~IsCombinator(trimmed[1])
            /\ ~IsCombinator(trimmed[Len(trimmed)])
            /\ QuerySelectorAccepts(trimmed)

\* the fields enhanceSchema reports
FieldErrors(values) ==
    {f \in {"input"} : Len(values.input) < 10 \/ Len(values.input) > 4000}
    \cup {f \in {"selectorPath"} : ~SelectorValid(values.selectorPath)}

FormParams(values) ==
    [userInput |-> values.input, wordLimit |-> values.wordLimit,
     selectorPath |-> values.selectorPath, techStack |-> EmptyStack]

\* the user edits the fields
FormType(values) ==
    /\ form.values # values
    /\ form' = [form EXCEPT !.values = values]
    /\ UNCHANGED clientVars

submitForm_SkipBothCaches(values, skipCache) ==
    IF ~skipCache /\ values \in form.cacheRef
    THEN /\ form' = [form EXCEPT !.errors = {}, !.error = Undefined,
                                 !.result = "cached", !.isLoading = FALSE]
         /\ UNCHANGED clientVars
    ELSE IF skipCache
    THEN /\ caller[Route].pc = "idle"
         /\ req[Route].pc = "none"
         /\ calls < MaxCalls
         /\ calls' = calls + 1
         /\ deduplicate(Route, FormParams(values))
         /\ outcome' = [outcome EXCEPT ![Route] = NoOutcome]
         /\ UNCHANGED <<now, cache, maxSize, performanceHistory>>
         /\ form' = [form EXCEPT !.errors = {}, !.error = Undefined,
                                 !.isLoading = TRUE, !.submitted = values]
    ELSE /\ enhancePromptOptimized(Route, FormParams(values))
         /\ form' = [form EXCEPT !.errors = {}, !.error = Undefined,
                                 !.isLoading = TRUE, !.submitted = values]

\* submitForm(values, skipCache) up to its await of enhancePromptOptimized
submitForm(values, skipCache) ==
    IF ~skipCache /\ values \in form.cacheRef
    THEN /\ form' = [form EXCEPT !.errors = {}, !.error = Undefined,
                                 !.result = "cached", !.isLoading = FALSE]
         /\ UNCHANGED clientVars
    ELSE /\ enhancePromptOptimized(Route, FormParams(values))
         /\ form' = [form EXCEPT !.errors = {}, !.error = Undefined,
                                 !.isLoading = TRUE, !.submitted = values]

\* the submit button: handleSubmit runs the resolver of enhanceSchema and
\* calls onSubmit when it reports no field
FormSubmit ==
    /\ ~form.isLoading
    /\ IF FieldErrors(form.values) # {}
       THEN /\ form' = [form EXCEPT !.errors = FieldErrors(form.values)]
            /\ UNCHANGED clientVars
       ELSE submitForm(form.values, FALSE)

\* the regenerate control of the result panel, taken to be there while a
\* result is shown and nothing is loading
handleRegenerate ==
    /\ form.result # Undefined
    /\ ~form.isLoading
    /\ submitForm(form.values, TRUE)

\* submitForm after its await: the result or the error is shown
FormSettled_NoFinally ==
    /\ form.isLoading
    /\ caller[Route].pc = "idle"
    /\ outcome[Route].kind # "none"
    /\ form' = IF outcome[Route].kind = "ok"
               THEN [form EXCEPT !.isLoading = FALSE,
                                 !.result = outcome[Route].value.yaml,
                                 !.cacheRef = @ \cup {form.submitted}]
               ELSE [form EXCEPT !.error = outcome[Route].error.msg]
    /\ UNCHANGED clientVars

FormSettled ==
    /\ form.isLoading
    /\ caller[Route].pc = "idle"
    /\ outcome[Route].kind # "none"
    /\ form' = IF outcome[Route].kind = "ok"
               THEN [form EXCEPT !.isLoading = FALSE,
                                 !.result = outcome[Route].value.yaml,
                                 !.cacheRef = @ \cup {form.submitted}]
               ELSE [form EXCEPT !.isLoading = FALSE,
                                 !.error = outcome[Route].error.msg]
    /\ UNCHANGED clientVars

NextForm ==
    \/ \E values \in FormValues : FormType(values) /\ UNCHANGED outsideForm
    \/ FormSubmit /\ UNCHANGED outsideForm
    \/ handleRegenerate /\ UNCHANGED outsideForm
    \/ FormSettled /\ UNCHANGED outsideForm
    \/ \E r \in RouteResponses : Responds(Route, r) /\ UNCHANGED outside
    \/ SleepDone(Route) /\ UNCHANGED outside
    \/ Settle(Route) /\ UNCHANGED outside

SpecForm == Init /\ [][NextForm]_vars

\* ------------------------------------------------- the pipeline under fairness
\* the form and a second caller ask for the same valid values; every fetch
\* is answered, fails or is aborted; every timer fires; every promise settles
LiveValues == {[input |-> Rep(97, 10), wordLimit |-> 100, selectorPath |-> <<>>]}

LiveResponses ==
    {[ok |-> TRUE, yaml |-> "y1", error |-> NoError],
     [ok |-> FALSE, yaml |-> Undefined, error |-> Error("API error 500", "")]}

\* the fetch of c's POST ends: an answer, a network failure, or the abort
FetchEnds(c) ==
    \/ \E r \in LiveResponses : Responds(c, r) /\ UNCHANGED outside
    \/ FetchFails(c) /\ UNCHANGED outside
    \/ Timeout(c) /\ UNCHANGED outside

NextLive ==
    \/ \E values \in LiveValues : FormType(values) /\ UNCHANGED outsideForm
    \/ FormSubmit /\ UNCHANGED outsideForm
    \/ handleRegenerate /\ UNCHANGED outsideForm
    \/ FormSettled /\ UNCHANGED outsideForm
    \/ \E c \in Clients \ {Route}, values \in LiveValues :
          enhancePromptOptimized(c, FormParams(values)) /\ UNCHANGED outside
    \/ \E c \in Clients : FetchEnds(c)
    \/ \E c \in Clients : SleepDone(c) /\ UNCHANGED outside
    \/ \E c \in Clients : Settle(c) /\ UNCHANGED outside
    \/ \E t \in Instants : Tick(t) /\ UNCHANGED outside

\* a fetch ends (its answer or the REQUEST_TIMEOUT timer), the timer of a
\* backoff sleep fires, a settled promise runs its callbacks, and submitForm
\* resumes after its await
Fairness ==
    /\ \A c \in Clients : WF_vars(FetchEnds(c))
    /\ \A c \in Clients : WF_vars(SleepDone(c) /\ UNCHANGED outside)
    /\ \A c \in Clients : WF_vars(Settle(c) /\ UNCHANGED outside)
    /\ WF_vars(FormSettled /\ UNCHANGED outsideForm)

SpecLive == Init /\ [][NextLive]_vars /\ Fairness

\* ---------------------------------------------------------- detectLanguage
\* [A-Za-z0-9_]: what \b takes for a word character
IsWordChar(ch) ==
    \/ (ch >= 48 /\ ch <= 57)
    \/ (ch >= 65 /\ ch <= 90)
    \/ (ch >= 97 /\ ch <= 122)
    \/ ch = 95

\* the code unit an /i pattern compares by: its upper case when that is one
\* code unit, for ASCII, Latin-1 and Cyrillic letters, itself otherwise
Canonicalize(ch) ==
    IF ch >= 97 /\ ch <= 122 THEN ch - 32
    ELSE IF ch >= 224 /\ ch <= 254 /\ ch # 247 THEN ch - 32
    ELSE IF ch = 255 THEN 376
    ELSE IF ch = 181 THEN 924
    ELSE IF ch >= 1072 /\ ch <= 1103 THEN ch - 32
    ELSE IF ch >= 1104 /\ ch <= 1119 THEN ch - 80
    ELSE ch

SameChar(a, b, ignoreCase) ==
    IF ignoreCase THEN Canonicalize(a) = Canonicalize(b) ELSE a = b

RECURSIVE Split(_, _)
Split(s, sep) ==
    IF \A i \in 1..Len(s) : s[i] # sep
    THEN <<s>>
    ELSE LET i == CHOOSE k \in 1..Len(s) :
                     s[k] = sep /\ \A h \in 1..(k - 1) : s[h] # sep
         IN <<SubSeq(s, 1, i - 1)>> \o Split(SubSeq(s, i + 1, Len(s)), sep)

\* a pattern \b(w1|w2|...)\b by its source: its alternatives in their order
WordsPattern(ignoreCase, source) ==
    [kind |-> "words", ignoreCase |-> ignoreCase, source |-> source,
     words |-> Split(SubSeq(source, 4, Len(source) - 3), 124)]

\* the table of patterns, each language with its patterns in their order
LANGUAGE_PATTERNS ==
    <<
      [lang |-> "en", patterns |-> <<
        \* line 11: an alternation between word boundaries, /gi
        WordsPattern(TRUE,
                     <<92, 98, 40, 116, 104, 101, 124, 97, 110, 100, 124, 111,
                       114, 124, 98, 117, 116, 124, 105, 110, 124, 111, 110,
                       124, 97, 116, 124, 116, 111, 124, 102, 111, 114, 124,
                       111, 102, 124, 119, 105, 116, 104, 124, 98, 121, 124,
                       102, 114, 111, 109, 124, 117, 112, 124, 97, 98, 111,
                       117, 116, 124, 105, 110, 116, 111, 124, 116, 104, 114,
                       111, 117, 103, 104, 124, 100, 117, 114, 105, 110, 103,
                       124, 98, 101, 102, 111, 114, 101, 124, 97, 102, 116,
                       101, 114, 124, 97, 98, 111, 118, 101, 124, 98, 101, 108,
                       111, 119, 124, 98, 101, 116, 119, 101, 101, 110, 124,
                       97, 109, 111, 110, 103, 124, 117, 110, 100, 101, 114,
                       124, 111, 118, 101, 114, 124, 97, 98, 111, 118, 101, 41,
                       92, 98>>),
        \* line 13: an alternation between word boundaries, /gi
        WordsPattern(TRUE,
                     <<92, 98, 40, 119, 104, 97, 116, 124, 119, 104, 101, 114,
                       101, 124, 119, 104, 101, 110, 124, 119, 104, 121, 124,
                       104, 111, 119, 124, 119, 104, 111, 124, 119, 104, 105,
                       99, 104, 124, 119, 104, 111, 115, 101, 124, 100, 111,
                       124, 100, 111, 101, 115, 124, 100, 105, 100, 124, 99,
                       97, 110, 124, 99, 111, 117, 108, 100, 124, 119, 105,
                       108, 108, 124, 119, 111, 117, 108, 100, 124, 115, 104,
                       111, 117, 108, 100, 124, 109, 97, 121, 124, 109, 105,
                       103, 104, 116, 124, 109, 117, 115, 116, 124, 115, 104,
                       97, 108, 108, 124, 111, 117, 103, 104, 116, 124, 110,
                       101, 101, 100, 124, 100, 97, 114, 101, 41, 92, 98>>),
        \* line 15: an alternation between word boundaries, /gi
        WordsPattern(TRUE,
                     <<92, 98, 40, 97, 124, 97, 110, 124, 116, 104, 101, 124,
                       105, 115, 124, 97, 114, 101, 124, 119, 97, 115, 124,
                       119, 101, 114, 101, 124, 98, 101, 124, 98, 101, 101,
                       110, 124, 98, 101, 105, 110, 103, 124, 104, 97, 118,
                       101, 124, 104, 97, 115, 124, 104, 97, 100, 124, 100,
                       111, 124, 100, 111, 101, 115, 124, 100, 105, 100, 41,
                       92, 98>>),
        \* line 17: nothing but characters of a class
        [kind |-> "all", ignoreCase |-> FALSE,
         space |-> TRUE,
         ranges |-> <<<<97, 122>>, <<65, 90>>, <<48, 57>>, <<46, 46>>,
                     <<44, 44>>, <<33, 33>>, <<63, 63>>, <<59, 59>>,
                     <<58, 58>>, <<39, 39>>, <<34, 34>>, <<45, 45>>>>,
         source |-> <<94, 91, 97, 45, 122, 65, 45, 90, 48, 45, 57, 92, 115, 46,
                     44, 33, 63, 59, 58, 39, 34, 45, 93, 43, 36>>]
      >>],
      [lang |-> "es", patterns |-> <<
        \* line 22: an alternation between word boundaries, /gi
        WordsPattern(TRUE,
                     <<92, 98, 40, 101, 108, 124, 108, 97, 124, 108, 111, 115,
                       124, 108, 97, 115, 124, 117, 110, 124, 117, 110, 97,
                       124, 117, 110, 111, 115, 124, 117, 110, 97, 115, 124,
                       121, 124, 111, 124, 112, 101, 114, 111, 124, 115, 105,
                       124, 110, 111, 124, 101, 110, 124, 100, 101, 124, 100,
                       101, 108, 124, 112, 111, 114, 124, 112, 97, 114, 97,
                       124, 99, 111, 110, 124, 115, 105, 110, 124, 115, 111,
                       98, 114, 101, 124, 101, 110, 116, 114, 101, 124, 104,
                       97, 115, 116, 97, 124, 104, 97, 99, 105, 97, 41, 92, 98>>),
        \* line 23: one character of a class, /i
        [kind |-> "class", ignoreCase |-> TRUE,
         space |-> FALSE,
         ranges |-> <<<<241, 241>>, <<225, 225>>, <<233, 233>>, <<237, 237>>,
                     <<243, 243>>, <<250, 250>>, <<252, 252>>>>,
         source |-> <<91, 241, 225, 233, 237, 243, 250, 252, 93>>],
        \* line 24: an alternation between word boundaries, /gi
        WordsPattern(TRUE,
                     <<92, 98, 40, 113, 117, 233, 124, 100, 243, 110, 100, 101,
                       124, 99, 117, 225, 110, 100, 111, 124, 112, 111, 114,
                       32, 113, 117, 233, 124, 99, 243, 109, 111, 124, 113,
                       117, 105, 233, 110, 124, 99, 117, 225, 108, 124, 99,
                       117, 225, 110, 116, 111, 41, 92, 98>>),
        \* line 26: a question mark at the end
        [kind |-> "ends", ignoreCase |-> FALSE, ch |-> 63,
         source |-> <<92, 63, 36>>],
        \* line 28: one character of a class
        [kind |-> "class", ignoreCase |-> FALSE,
         space |-> FALSE,
         ranges |-> <<<<225, 225>>, <<233, 233>>, <<237, 237>>, <<243, 243>>,
                     <<250, 250>>, <<252, 252>>, <<241, 241>>, <<193, 193>>,
                     <<201, 201>>, <<205, 205>>, <<211, 211>>, <<218, 218>>,
                     <<220, 220>>, <<209, 209>>>>,
         source |-> <<91, 225, 233, 237, 243, 250, 252, 241, 193, 201, 205,
                     211, 218, 220, 209, 93>>]
      >>],
      [lang |-> "fr", patterns |-> <<
        \* line 33: an alternation between word boundaries, /gi
        WordsPattern(TRUE,
                     <<92, 98, 40, 108, 101, 124, 108, 97, 124, 108, 101, 115,
                       124, 117, 110, 124, 117, 110, 101, 124, 100, 101, 115,
                       124, 101, 116, 124, 111, 117, 124, 109, 97, 105, 115,
                       124, 115, 105, 124, 110, 101, 124, 112, 97, 115, 124,
                       100, 97, 110, 115, 124, 100, 101, 124, 100, 117, 124,
                       112, 97, 114, 124, 112, 111, 117, 114, 124, 97, 118,
                       101, 99, 124, 115, 97, 110, 115, 124, 115, 117, 114,
                       124, 101, 110, 116, 114, 101, 124, 106, 117, 115, 113,
                       117, 101, 124, 118, 101, 114, 115, 41, 92, 98>>),
        \* line 34: one character of a class, /i
        [kind |-> "class", ignoreCase |-> TRUE,
         space |-> FALSE,
         ranges |-> <<<<224, 224>>, <<226, 226>>, <<228, 228>>, <<233, 233>>,
                     <<232, 232>>, <<234, 234>>, <<235, 235>>, <<239, 239>>,
                     <<238, 238>>, <<244, 244>>, <<246, 246>>, <<249, 249>>,
                     <<251, 251>>, <<252, 252>>, <<255, 255>>, <<231, 231>>>>,
         source |-> <<91, 224, 226, 228, 233, 232, 234, 235, 239, 238, 244,
                     246, 249, 251, 252, 255, 231, 93>>],
        \* line 35: an alternation between word boundaries, /gi
        WordsPattern(TRUE,
                     <<92, 98, 40, 113, 117, 111, 105, 124, 111, 249, 124, 113,
                       117, 97, 110, 100, 124, 112, 111, 117, 114, 113, 117,
                       111, 105, 124, 99, 111, 109, 109, 101, 110, 116, 124,
                       113, 117, 105, 124, 108, 101, 113, 117, 101, 108, 124,
                       99, 111, 109, 98, 105, 101, 110, 41, 92, 98>>),
        \* line 37: an alternation between word boundaries, /gi
        WordsPattern(TRUE,
                     <<92, 98, 40, 101, 115, 116, 45, 99, 101, 45, 113, 117,
                       101, 124, 113, 117, 39, 101, 115, 116, 45, 99, 101, 32,
                       113, 117, 101, 41, 92, 98>>)
      >>],
      [lang |-> "de", patterns |-> <<
        \* line 42: an alternation between word boundaries, /gi
        WordsPattern(TRUE,
                     <<92, 98, 40, 100, 101, 114, 124, 100, 105, 101, 124, 100,
                       97, 115, 124, 100, 101, 110, 124, 100, 101, 109, 124,
                       100, 101, 115, 124, 101, 105, 110, 124, 101, 105, 110,
                       101, 124, 101, 105, 110, 101, 110, 124, 101, 105, 110,
                       101, 109, 124, 101, 105, 110, 101, 115, 124, 117, 110,
                       100, 124, 111, 100, 101, 114, 124, 97, 98, 101, 114,
                       124, 119, 101, 110, 110, 124, 110, 105, 99, 104, 116,
                       124, 105, 110, 124, 97, 110, 124, 122, 117, 124, 102,
                       252, 114, 124, 109, 105, 116, 124, 111, 104, 110, 101,
                       124, 97, 117, 102, 124, 117, 110, 116, 101, 114, 124,
                       252, 98, 101, 114, 41, 92, 98>>),
        \* line 43: one character of a class, /i
        [kind |-> "class", ignoreCase |-> TRUE,
         space |-> FALSE,
         ranges |-> <<<<228, 228>>, <<246, 246>>, <<252, 252>>, <<223, 223>>,
                     <<196, 196>>, <<214, 214>>, <<220, 220>>>>,
         source |-> <<91, 228, 246, 252, 223, 196, 214, 220, 93>>],
        \* line 44: an alternation between word boundaries, /gi
        WordsPattern(TRUE,
                     <<92, 98, 40, 119, 97, 115, 124, 119, 111, 124, 119, 97,
                       110, 110, 124, 119, 97, 114, 117, 109, 124, 119, 105,
                       101, 124, 119, 101, 114, 124, 119, 101, 108, 99, 104,
                       101, 114, 124, 119, 105, 101, 118, 105, 101, 108, 41,
                       92, 98>>)
      >>],
      [lang |-> "it", patterns |-> <<
        \* line 49: an alternation between word boundaries, /gi
        WordsPattern(TRUE,
                     <<92, 98, 40, 105, 108, 124, 108, 111, 124, 108, 97, 124,
                       108, 101, 124, 103, 108, 105, 124, 117, 110, 124, 117,
                       110, 111, 124, 117, 110, 97, 124, 101, 124, 111, 124,
                       109, 97, 124, 115, 101, 124, 110, 111, 110, 124, 105,
                       110, 124, 97, 124, 100, 97, 124, 100, 105, 124, 100,
                       101, 108, 124, 112, 101, 114, 124, 99, 111, 110, 124,
                       115, 101, 110, 122, 97, 124, 115, 117, 124, 116, 114,
                       97, 124, 102, 114, 97, 41, 92, 98>>),
        \* line 50: one character of a class, /i
        [kind |-> "class", ignoreCase |-> TRUE,
         space |-> FALSE,
         ranges |-> <<<<224, 224>>, <<232, 232>>, <<233, 233>>, <<236, 236>>,
                     <<237, 237>>, <<238, 238>>, <<242, 242>>, <<243, 243>>,
                     <<249, 249>>>>,
         source |-> <<91, 224, 232, 233, 236, 237, 238, 242, 243, 249, 93>>],
        \* line 51: an alternation between word boundaries, /gi
        WordsPattern(TRUE,
                     <<92, 98, 40, 99, 104, 101, 124, 99, 111, 115, 97, 124,
                       100, 111, 118, 101, 124, 113, 117, 97, 110, 100, 111,
                       124, 112, 101, 114, 99, 104, 233, 124, 99, 111, 109,
                       101, 124, 99, 104, 105, 124, 113, 117, 97, 108, 101,
                       124, 113, 117, 97, 110, 116, 111, 41, 92, 98>>)
      >>],
      [lang |-> "pt", patterns |-> <<
        \* line 56: an alternation between word boundaries, /gi
        WordsPattern(TRUE,
                     <<92, 98, 40, 111, 124, 97, 124, 111, 115, 124, 97, 115,
                       124, 117, 109, 124, 117, 109, 97, 124, 117, 110, 115,
                       124, 117, 109, 97, 115, 124, 101, 124, 111, 117, 124,
                       109, 97, 115, 124, 115, 101, 124, 110, 227, 111, 124,
                       101, 109, 124, 100, 101, 124, 100, 111, 124, 112, 111,
                       114, 124, 112, 97, 114, 97, 124, 99, 111, 109, 124, 115,
                       101, 109, 124, 115, 111, 98, 114, 101, 124, 101, 110,
                       116, 114, 101, 124, 97, 116, 233, 124, 112, 97, 114, 97,
                       41, 92, 98>>),
        \* line 57: one character of a class, /i
        [kind |-> "class", ignoreCase |-> TRUE,
         space |-> FALSE,
         ranges |-> <<<<227, 227>>, <<226, 226>>, <<225, 225>>, <<224, 224>>,
                     <<233, 233>>, <<234, 234>>, <<237, 237>>, <<243, 243>>,
                     <<244, 244>>, <<245, 245>>, <<250, 250>>, <<231, 231>>>>,
         source |-> <<91, 227, 226, 225, 224, 233, 234, 237, 243, 244, 245,
                     250, 231, 93>>],
        \* line 58: an alternation between word boundaries, /gi
        WordsPattern(TRUE,
                     <<92, 98, 40, 111, 124, 113, 117, 101, 124, 111, 110, 100,
                       101, 124, 113, 117, 97, 110, 100, 111, 124, 112, 111,
                       114, 32, 113, 117, 101, 124, 99, 111, 109, 111, 124,
                       113, 117, 101, 109, 124, 113, 117, 97, 108, 124, 113,
                       117, 97, 110, 116, 111, 41, 92, 98>>)
      >>],
      [lang |-> "ru", patterns |-> <<
        \* line 63: one character of a class, /i
        [kind |-> "class", ignoreCase |-> TRUE,
         space |-> FALSE,
         ranges |-> <<<<1072, 1103>>, <<1105, 1105>>>>,
         source |-> <<91, 1072, 45, 1103, 1105, 93>>],
        \* line 64: an alternation between word boundaries, /gi
        WordsPattern(TRUE,
                     <<92, 98, 40, 1080, 124, 1080, 1083, 1080, 124, 1085,
                       1086, 124, 1077, 1089, 1083, 1080, 124, 1085, 1077, 124,
                       1074, 124, 1085, 1072, 124, 1089, 124, 1087, 1086, 124,
                       1082, 124, 1086, 1090, 124, 1080, 1079, 124, 1087, 1086,
                       1076, 124, 1085, 1072, 1076, 124, 1079, 1072, 124, 1076,
                       1083, 1103, 124, 1073, 1077, 1079, 124, 1095, 1077,
                       1088, 1077, 1079, 124, 1089, 1082, 1074, 1086, 1079,
                       1100, 124, 1086, 1082, 1086, 1083, 1086, 41, 92, 98>>),
        \* line 65: an alternation between word boundaries, /gi
        WordsPattern(TRUE,
                     <<92, 98, 40, 1095, 1090, 1086, 124, 1075, 1076, 1077,
                       124, 1082, 1086, 1075, 1076, 1072, 124, 1087, 1086,
                       1095, 1077, 1084, 1091, 124, 1082, 1072, 1082, 124,
                       1082, 1090, 1086, 124, 1082, 1086, 1090, 1086, 1088,
                       1099, 1081, 124, 1089, 1082, 1086, 1083, 1100, 1082,
                       1086, 41, 92, 98>>)
      >>],
      [lang |-> "zh", patterns |-> <<
        \* line 70: one character of a class
        [kind |-> "class", ignoreCase |-> FALSE,
         space |-> FALSE,
         ranges |-> <<<<19968, 40959>>>>,
         source |-> <<91, 92, 117, 52, 101, 48, 48, 45, 92, 117, 57, 102, 102,
                     102, 93>>],
        \* line 71: an alternation between word boundaries, /g
        WordsPattern(FALSE,
                     <<92, 98, 40, 20160, 20040, 124, 21738, 37324, 124, 20160,
                       20040, 26102, 20505, 124, 20026, 20160, 20040, 124,
                       22914, 20309, 124, 35841, 124, 21738, 20010, 124, 22810,
                       23569, 41, 92, 98>>),
        \* line 72: one character of a class
        [kind |-> "class", ignoreCase |-> FALSE,
         space |-> FALSE,
         ranges |-> <<<<12288, 12351>>, <<65280, 65519>>>>,
         source |-> <<91, 92, 117, 51, 48, 48, 48, 45, 92, 117, 51, 48, 51,
                     102, 92, 117, 102, 102, 48, 48, 45, 92, 117, 102, 102,
                     101, 102, 93>>]
      >>],
      [lang |-> "ja", patterns |-> <<
        \* line 77: one character of a class
        [kind |-> "class", ignoreCase |-> FALSE,
         space |-> FALSE,
         ranges |-> <<<<12352, 12447>>>>,
         source |-> <<91, 92, 117, 51, 48, 52, 48, 45, 92, 117, 51, 48, 57,
                     102, 93>>],
        \* line 78: one character of a class
        [kind |-> "class", ignoreCase |-> FALSE,
         space |-> FALSE,
         ranges |-> <<<<12448, 12543>>>>,
         source |-> <<91, 92, 117, 51, 48, 97, 48, 45, 92, 117, 51, 48, 102,
                     102, 93>>],
        \* line 79: one character of a class
        [kind |-> "class", ignoreCase |-> FALSE,
         space |-> FALSE,
         ranges |-> <<<<19968, 40959>>>>,
         source |-> <<91, 92, 117, 52, 101, 48, 48, 45, 92, 117, 57, 102, 102,
                     102, 93>>],
        \* line 80: an alternation between word boundaries, /g
        WordsPattern(FALSE,
                     <<92, 98, 40, 20309, 124, 12393, 12371, 124, 12356, 12388,
                       124, 12394, 12380, 124, 12393, 12398, 12424, 12358,
                       12395, 124, 35504, 124, 12393, 12428, 124, 12356, 12367,
                       12425, 41, 92, 98>>)
      >>],
      [lang |-> "ko", patterns |-> <<
        \* line 85: one character of a class
        [kind |-> "class", ignoreCase |-> FALSE,
         space |-> FALSE,
         ranges |-> <<<<44032, 55215>>>>,
         source |-> <<91, 92, 117, 97, 99, 48, 48, 45, 92, 117, 100, 55, 97,
                     102, 93>>],
        \* line 86: an alternation between word boundaries, /g
        WordsPattern(FALSE,
                     <<92, 98, 40, 47924, 50631, 124, 50612, 46356, 49436, 124,
                       50616, 51228, 124, 50780, 124, 50612, 46523, 44172, 124,
                       45572, 44032, 124, 50612, 46500, 124, 50620, 47560,
                       45208, 41, 92, 98>>)
      >>],
      [lang |-> "ar", patterns |-> <<
        \* line 91: one character of a class
        [kind |-> "class", ignoreCase |-> FALSE,
         space |-> FALSE,
         ranges |-> <<<<1536, 1791>>>>,
         source |-> <<91, 92, 117, 48, 54, 48, 48, 45, 92, 117, 48, 54, 102,
                     102, 93>>],
        \* line 92: an alternation between word boundaries, /g
        WordsPattern(FALSE,
                     <<92, 98, 40, 1605, 1575, 1584, 1575, 124, 1571, 1610,
                       1606, 124, 1605, 1578, 1609, 124, 1604, 1605, 1575,
                       1584, 1575, 124, 1603, 1610, 1601, 124, 1605, 1606, 124,
                       1571, 1610, 124, 1603, 1605, 41, 92, 98>>)
      >>],
      [lang |-> "hi", patterns |-> <<
        \* line 97: one character of a class
        [kind |-> "class", ignoreCase |-> FALSE,
         space |-> FALSE,
         ranges |-> <<<<2304, 2431>>>>,
         source |-> <<91, 92, 117, 48, 57, 48, 48, 45, 92, 117, 48, 57, 55,
                     102, 93>>],
        \* line 98: an alternation between word boundaries, /g
        WordsPattern(FALSE,
                     <<92, 98, 40, 2325, 2381, 2351, 2366, 124, 2325, 2361,
                       2366, 2306, 124, 2325, 2348, 124, 2325, 2381, 2351,
                       2379, 2306, 124, 2325, 2376, 2360, 2375, 124, 2325,
                       2380, 2344, 124, 2325, 2380, 2344, 32, 2360, 2366, 124,
                       2325, 2367, 2340, 2344, 2366, 41, 92, 98>>)
      >>]
    >>

\* ch is matched by the class of pattern p
InClass(ch, p) ==
    \/ p.space /\ IsSpace(ch)
    \/ \E r \in 1..Len(p.ranges) :
          IF p.ignoreCase
          THEN \E c \in p.ranges[r][1]..p.ranges[r][2] :
                  Canonicalize(c) = Canonicalize(ch)
          ELSE ch >= p.ranges[r][1] /\ ch <= p.ranges[r][2]

\* \b holds after the first i code units of s
IsBoundary(s, i) ==
    (i >= 1 /\ IsWordChar(s[i])) # (i < Len(s) /\ IsWordChar(s[i + 1]))

MatchesAt(s, i, w, ignoreCase) ==
    /\ i + Len(w) - 1 <= Len(s)
    /\ \A k \in 1..Len(w) : SameChar(s[i + k - 1], w[k], ignoreCase)

\* the length of the match of (w1|w2|...)\b at position i: that of the first
\* alternative that matches there and ends at a boundary, 0 when none does
AlternativeAt(s, i, p) ==
    LET Fits(j) == /\ MatchesAt(s, i, p.words[j], p.ignoreCase)
                   /\ IsBoundary(s, i - 1 + Len(p.words[j]))
    IN IF \E j \in 1..Len(p.words) : Fits(j)
       THEN Len(p.words[CHOOSE j \in 1..Len(p.words) :
                           Fits(j) /\ \A h \in 1..(j - 1) : ~Fits(h)])
       ELSE 0

\* the matches of a /g pattern from position i on
RECURSIVE CountFrom(_, _, _)
CountFrom(s, i, p) ==
    IF i > Len(s) THEN 0
    ELSE LET n == IF IsBoundary(s, i - 1) THEN AlternativeAt(s, i, p) ELSE 0
         IN IF n > 0 THEN 1 + CountFrom(s, i + n, p) ELSE CountFrom(s, i + 1, p)

\* matches ? matches.length : 0 for matches = cleanText.match(pattern): all
\* the matches of a /g pattern, the one match of a pattern without /g
MatchCount(s, p) ==
    CASE p.kind = "words" -> CountFrom(s, 1, p)
      [] p.kind = "class" -> IF \E i \in 1..Len(s) : InClass(s[i], p) THEN 1 ELSE 0
      [] p.kind = "all" ->
            IF s # <<>> /\ \A i \in 1..Len(s) : InClass(s[i], p) THEN 1 ELSE 0
      [] p.kind = "ends" -> IF s # <<>> /\ s[Len(s)] = p.ch THEN 1 ELSE 0

Includes(s, needle) ==
    \E i \in 1..(Len(s) - Len(needle) + 1) :
       SubSeq(s, i, i + Len(needle) - 1) = needle

\* the weight of a match.  The strings looked for in pattern.source are
\* written with two backslashes where a pattern has one: \\b(the|and|or|but),
\* [\\u4e00-\\u9fff], [\\u0600-\\u06ff], [\\u0900-\\u097f]
Weight(lang, p) ==
    IF /\ lang = "en"
       /\ Includes(p.source, <<92, 92, 98, 40, 116, 104, 101, 124, 97, 110,
                               100, 124, 111, 114, 124, 98, 117, 116, 41>>)
    THEN 2
    ELSE IF \/ Includes(p.source, <<91, 92, 92, 117, 52, 101, 48, 48, 45,
                                    92, 92, 117, 57, 102, 102, 102, 93>>)
            \/ Includes(p.source, <<91, 92, 92, 117, 48, 54, 48, 48, 45,
                                    92, 92, 117, 48, 54, 102, 102, 93>>)
            \/ Includes(p.source, <<91, 92, 92, 117, 48, 57, 48, 48, 45,
                                    92, 92, 117, 48, 57, 55, 102, 93>>)
    THEN 3
    ELSE 1

Weights ==
    [l \in 1..Len(LANGUAGE_PATTERNS) |->
       [k \in 1..Len(LANGUAGE_PATTERNS[l].patterns) |->
          Weight(LANGUAGE_PATTERNS[l].lang, LANGUAGE_PATTERNS[l].patterns[k])]]

RECURSIVE ScoreFrom(_, _, _)
ScoreFrom(s, l, k) ==
    IF k > Len(LANGUAGE_PATTERNS[l].patterns) THEN 0
    ELSE MatchCount(s, LANGUAGE_PATTERNS[l].patterns[k]) * Weights[l][k]
         + ScoreFrom(s, l, k + 1)

\* scores[lang] * textLength, in the order of the table
Scores(cleanText) ==
    [l \in 1..Len(LANGUAGE_PATTERNS) |-> ScoreFrom(cleanText, l, 1)]

\* 0.3 as a ratio
CONFIDENCE_THRESHOLD == [num |-> 3, den |-> 10]

\* score / textLength > CONFIDENCE_THRESHOLD.  The quotient of two small
\* integers and the literal 0.3 are the doubles nearest to the exact values,
\* so they compare as the exact values do
AboveThreshold(score, textLength) ==
    score * CONFIDENCE_THRESHOLD.den > CONFIDENCE_THRESHOLD.num * textLength

RECURSIVE Highest_LastWins(_, _, _)
Highest_LastWins(scores, l, best) ==
    IF l > Len(scores) THEN best
    ELSE Highest_LastWins(scores, l + 1,
                 IF scores[l] >= best.score /\ scores[l] > 0
                 THEN [language |-> LANGUAGE_PATTERNS[l].lang, score |-> scores[l]]
                 ELSE best)

\* the loop over Object.entries(scores); the scores share their divisor, so
\* they compare as their dividends do
RECURSIVE Highest(_, _, _)
Highest(scores, l, best) ==
    IF l > Len(scores) THEN best
    ELSE Highest(scores, l + 1,
                 IF scores[l] > best.score
                 THEN [language |-> LANGUAGE_PATTERNS[l].lang, score |-> scores[l]]
                 ELSE best)

detectLanguage_NoEnglishCheck(t) ==
    IF t = <<>> \/ Trim(t) = <<>>
    THEN [language |-> "unknown", confidence |-> [num |-> 0, den |-> 1],
          isEnglish |-> FALSE, needsTranslation |-> FALSE]
    ELSE LET cleanText == Trim(t)
             textLength == Len(cleanText)
             best == Highest(Scores(cleanText), 1,
                             [language |-> "unknown", score |-> 0])
         IN [language |-> best.language,
             confidence |-> [num |-> best.score, den |-> textLength],
             isEnglish |-> best.language = "en",
             needsTranslation |-> AboveThreshold(best.score, textLength)]

\* confidence is the ratio score / textLength
detectLanguage(t) ==
    IF t = <<>> \/ Trim(t) = <<>>
    THEN [language |-> "unknown", confidence |-> [num |-> 0, den |-> 1],
          isEnglish |-> FALSE, needsTranslation |-> FALSE]
    ELSE LET cleanText == Trim(t)
             textLength == Len(cleanText)
             best == Highest(Scores(cleanText), 1,
                             [language |-> "unknown", score |-> 0])
             isEnglish == best.language = "en"
         IN [language |-> best.language,
             confidence |-> [num |-> best.score, den |-> textLength],
             isEnglish |-> isEnglish,
             needsTranslation |-> ~isEnglish /\ AboveThreshold(best.score, textLength)]

\* the Russian "privet kak dela", in Cyrillic letters
CyrillicText ==
    <<1087, 1088, 1080, 1074, 1077, 1090, 32, 1082, 1072, 1082, 32, 1076, 1077, 1083, 1072>>

\* ------------------------------------------------------------ SpecDetect
\* detectLanguage applied to a text: words of several tables and one of none,
\* joined by single spaces, and texts of the other scripts and edge cases
MaxWords == 4

\* "le", "la", "de", "x"
Vocabulary == {<<108, 101>>, <<108, 97>>, <<100, 101>>, <<120>>}

RECURSIVE Join(_)
Join(words) ==
    IF Len(words) = 0 THEN <<>>
    ELSE IF Len(words) = 1 THEN words[1]
    ELSE words[1] \o <<32>> \o Join(Tail(words))

DetectTexts ==
    {
       \* the empty text
       <<>>,
       \* only whitespace
       <<32, 9>>,
       \* no pattern matches
       <<167>>,
       \* the English article "a"
       <<97>>,
       \* one English word
       <<116, 104, 101>>,
       \* English words, a capital
       <<84, 104, 101, 32, 99, 97, 116>>,
       \* English stop words
       <<116, 104, 101, 32, 97, 110, 100, 32, 111, 102, 32, 105, 110, 32, 111, 110>>,
       \* Russian, lower case
       <<1087, 1088, 1080, 1074, 1077, 1090, 32, 1082, 1072, 1082, 32, 1076, 1077, 1083, 1072>>,
       \* one Cyrillic letter
       <<1080>>,
       \* a Russian word of the table
       <<1101, 1090, 1086>>,
       \* a word of several tables, padded
       <<32, 108, 97, 32>>,
       \* Spanish punctuation
       <<191, 113, 117, 101, 63>>,
       \* a Spanish word ending in a letter outside ASCII
       <<233, 108>>,
       \* Han
       <<20320, 22909>>,
       \* Hiragana
       <<12399>>,
       \* Hangul
       <<54620>>,
       \* Arabic
       <<1605, 1593>>,
       \* Devanagari
       <<2361, 2376>>,
       \* one German word
       <<100, 101, 114>>,
       \* one Portuguese word
       <<111>>
    }
    \cup {Join(w) : w \in UNION {[1..n -> Vocabulary] : n \in 1..MaxWords}}

CallDetectLanguage ==
    /\ detection = NoDetection
    /\ detection' = detectLanguage(text)
    /\ UNCHANGED text
    /\ UNCHANGED outsideDetect

InitDetect ==
    /\ now = 0
    /\ calls = 0
    /\ cache = <<>>
    /\ maxSize = MAX_CACHE_SIZE
    /\ pendingRequests = <<>>
    /\ performanceHistory = <<>>
    /\ caller = [c \in Clients |-> Idle]
    /\ outcome = [c \in Clients |-> NoOutcome]
    /\ req = [c \in Clients |-> NoReq]
    /\ srv = [c \in Clients |-> NoSrv]
    /\ fetches = NoFetches
    /\ returned = NoReturn
    /\ inserted = <<>>
    /\ requestParams = NoParams
    /\ fingerprint = NoFingerprint
    /\ form = NoForm
    /\ text \in DetectTexts
    /\ detection = NoDetection
    /\ translationCache = <<>>
    /\ post = NoPost
    /\ cleanedContent = NoContent
    /\ parsed = NoDocument

NextDetect == CallDetectLanguage

SpecDetect == InitDetect /\ [][NextDetect]_vars

\* ----------------------------------------------------------- translation
\* a userInput of the request body that is a number other than 0
NumberInput == <<-2>>

getLanguageName(code) ==
    CASE code = "en" -> "English"
      [] code = "es" -> "Spanish"
      [] code = "fr" -> "French"
      [] code = "de" -> "German"
      [] code = "it" -> "Italian"
      [] code = "pt" -> "Portuguese"
      [] code = "ru" -> "Russian"
      [] code = "zh" -> "Chinese"
      [] code = "ja" -> "Japanese"
      [] code = "ko" -> "Korean"
      [] code = "ar" -> "Arabic"
      [] code = "hi" -> "Hindi"
      [] OTHER -> "Unknown"

\* how an async function completed
Returned(result) == [kind |-> "returned", result |-> result]
Threw(error) == [kind |-> "threw", error |-> error]

\* text.trim on a number
TypeErrorMsg == "text.trim is not a function"
\* the third argument of the call of attemptTranslation names no binding: the
\* parameter is _preferredSourceLanguage
ReferenceErrorMsg == "preferredSourceLanguage is not defined"

\* translateToEnglish once detectLanguage(text) returned d.  Evaluating the
\* arguments of attemptTranslation throws, so no strategy is ever started
TranslateDetected(t, d) ==
    IF d.isEnglish \/ ~d.needsTranslation
    THEN Returned([originalText |-> t, translatedText |-> t,
                   originalLanguage |-> d.language,
                   originalLanguageName |-> getLanguageName(d.language),
                   wasTranslated |-> FALSE,
                   confidence |-> d.confidence])
    ELSE Threw(ReferenceErrorMsg)

\* translateToEnglish up to its return or throw
translateToEnglish(t) ==
    IF t = NumberInput THEN Threw(TypeErrorMsg)
    ELSE IF t = <<>> \/ Trim(t) = <<>>
    THEN Returned([originalText |-> t, translatedText |-> t,
                   originalLanguage |-> "unknown",
                   originalLanguageName |-> "Unknown",
                   wasTranslated |-> FALSE,
                   confidence |-> [num |-> 0, den |-> 1]])
    ELSE TranslateDetected(t, detectLanguage(t))

\* `${text}-${preferredSourceLanguage || ''}` of a call without the hint
TranslationCacheKey(t) == t \o <<45>>

TRANSLATION_CACHE_LIMIT == 1000

\* translationCache.set(cacheKey, result), then the size limit
TranslationCacheSet(c, cacheKey, result) ==
    IF Len(MapSet(c, [key |-> cacheKey, result |-> result]))
           > TRANSLATION_CACHE_LIMIT
    THEN Tail(MapSet(c, [key |-> cacheKey, result |-> result]))
    ELSE MapSet(c, [key |-> cacheKey, result |-> result])

\* translateToEnglishCached after a miss, translateToEnglish completing as r
CachedAfterMiss(c, cacheKey, r) ==
    IF r.kind = "threw"
    THEN [completion |-> r, cache |-> c]
    ELSE [completion |-> r, cache |-> TranslationCacheSet(c, cacheKey, r.result)]

\* translateToEnglishCached on the cache c: how it completes and the cache
\* it leaves
translateToEnglishCached(c, t) ==
    IF CacheIndex(c, TranslationCacheKey(t)) # 0
    THEN [completion |-> Returned(c[CacheIndex(c, TranslationCacheKey(t))].result),
          cache |-> c]
    ELSE CachedAfterMiss(c, TranslationCacheKey(t), translateToEnglish(t))

\* --------------------------------------------------------- SpecTranslate
\* the userInput of a request: empty, English, French and Spanish above the
\* threshold, Russian below it, and a number
TranslateInputs ==
    {<<>>,
     \* "the"
     <<116, 104, 101>>,
     \* "le la de"
     <<108, 101, 32, 108, 97, 32, 100, 101>>,
     \* e-acute, "l"
     <<233, 108>>,
     CyrillicText,
     NumberInput}

POSTAfterTranslation_NoCatch(p, completion) ==
    IF completion.kind = "threw"
    THEN [post |-> [p EXCEPT !.pc = "failed", !.translation = completion],
          srv |-> [NoSrv EXCEPT !.pc = "responded",
                                !.response = [ok |-> FALSE, yaml |-> Undefined,
                                              error |-> Error(completion.error, "")]]]
    ELSE [post |-> [p EXCEPT !.pc = "upstream", !.translation = completion,
                             !.processedBody =
                                 [userInput |-> completion.result.translatedText]],
          srv |-> POSTStart]

\* the handler from the try around translateToEnglishCached to the first
\* upstream fetch of requestWithRetry
POSTAfterTranslation(p, completion) ==
    [post |-> [p EXCEPT !.pc = "upstream", !.translation = completion,
                        !.processedBody =
                            [userInput |-> IF completion.kind = "returned"
                                           THEN completion.result.translatedText
                                           ELSE p.body.userInput]],
     srv |-> POSTStart]

\* the step of POST, translateToEnglishCached having completed as
\* called.completion and left the cache called.cache
POSTTranslated(p, called) ==
    /\ translationCache' = called.cache
    /\ post' = POSTAfterTranslation(p, called.completion).post
    /\ srv' = [srv EXCEPT ![Route] = POSTAfterTranslation(p, called.completion).srv]

\* a request arrives: the handler runs to its first upstream fetch
POST(userInput) ==
    /\ post.pc = "none"
    /\ post.served < MaxCalls
    /\ POSTTranslated([post EXCEPT !.body = [userInput |-> userInput],
                                    !.response = NoResponse],
                      translateToEnglishCached(translationCache, userInput))
    /\ UNCHANGED outsideTranslate

\* the handler returns its NextResponse; response.translation is set only
\* beside a yaml and only when the result says wasTranslated
POSTReturns ==
    /\ post.pc # "none"
    /\ srv[Route].pc = "responded"
    /\ post' = [NoPost EXCEPT
                  !.response = srv[Route].response,
                  !.served = post.served + 1]
    /\ srv' = [srv EXCEPT ![Route] = NoSrv]
    /\ UNCHANGED translationCache
    /\ UNCHANGED outsideTranslate

NextTranslate ==
    \/ \E userInput \in TranslateInputs : POST(userInput)
    \/ \E o \in UpstreamOutcomes : UpstreamRespond(Route, o) /\ UNCHANGED outside
    \/ ServerSleepDone(Route) /\ UNCHANGED outside
    \/ POSTReturns

SpecTranslate == Init /\ [][NextTranslate]_vars

\* -------------------------------------------------- the upstream content
Fence == <<96, 96, 96>>

StartsWith(s, prefix, ignoreCase) == MatchesAt(s, 1, prefix, ignoreCase)

\* replace(/^```(?:yaml)?\s*\n?/i, ''): \s* takes every newline, so \n? adds
\* nothing
StripOpeningFence(s) ==
    IF ~StartsWith(s, Fence, FALSE) THEN s
    ELSE IF StartsWith(s, Fence \o <<121, 97, 109, 108>>, TRUE)
    THEN TrimStart(SubSeq(s, 8, Len(s)))
    ELSE TrimStart(SubSeq(s, 4, Len(s)))

\* replace(/\n?```\s*$/i, ''): the fence that only whitespace follows, with
\* the newline before it
StripClosingFence(s) ==
    IF Len(TrimEnd(s)) < 3
       \/ SubSeq(TrimEnd(s), Len(TrimEnd(s)) - 2, Len(TrimEnd(s))) # Fence
    THEN s
    ELSE IF Len(TrimEnd(s)) > 3 /\ s[Len(TrimEnd(s)) - 3] = 10
    THEN SubSeq(s, 1, Len(TrimEnd(s)) - 4)
    ELSE SubSeq(s, 1, Len(TrimEnd(s)) - 3)

StripCodeFences_NoTrim(content) ==
    StripClosingFence(StripOpeningFence(content))

\* content.trim(), the two replacements, trim() again
StripCodeFences(content) ==
    Trim(StripClosingFence(StripOpeningFence(Trim(content))))

\* null, as an item of a list or as a selector path
NullItem == <<-3>>

\* what counts for nothing as an item or as a selector path: null,
\* undefined, '' and 'null'
EmptyItems == {NullItem, UndefinedText, <<>>, <<110, 117, 108, 108>>}

\* the test under which a key of tech_stack is deleted
IsEmptyCategory(v) ==
    \/ v.kind = "null"
    \/ /\ v.kind = "list"
       /\ \A i \in 1..Len(v.items) : v.items[i] \in EmptyItems

\* the deletions made in the parsed document before yaml.dump
CleanDocument(d) ==
    [tech_stack |->
        IF d.tech_stack.kind # "map" THEN d.tech_stack
        ELSE [kind |-> "map",
              map |-> [k \in {c \in DOMAIN d.tech_stack.map :
                                ~IsEmptyCategory(d.tech_stack.map[c])}
                         |-> d.tech_stack.map[k]]],
     selector_path |->
        IF d.selector_path \in EmptyItems THEN UndefinedText
        ELSE d.selector_path]

\* --------------------------------------------------------------- SpecYaml
MaxTokens == 3
MaxPasses == 2

\* a fence, "yaml", a newline, a space, "a"
ContentTokens == {Fence, <<121, 97, 109, 108>>, <<10>>, <<32>>, <<97>>}

RECURSIVE Concat(_)
Concat(pieces) ==
    IF pieces = <<>> THEN <<>> ELSE Head(pieces) \o Concat(Tail(pieces))

FencedContents ==
    {Concat(w) : w \in UNION {[1..n -> ContentTokens] : n \in 0..MaxTokens}}

\* the values of a key of tech_stack: null, lists and a string
CategoryValues ==
    {[kind |-> "null"], [kind |-> "scalar"]}
    \cup {[kind |-> "list", items |-> l] :
             l \in {<<>>, <<NullItem>>, <<<<>>>>, <<<<110, 117, 108, 108>>>>,
                    <<<<97>>>>, <<<<97>>, NullItem>>, <<NullItem, <<>>>>}}

Documents ==
    {[tech_stack |-> ts, selector_path |-> sp] :
        ts \in {[kind |-> "absent"]}
               \cup {[kind |-> "map", map |-> m] :
                        m \in UNION {[keys -> CategoryValues] :
                                        keys \in SUBSET {"frontend", "backend"}}},
        sp \in EmptyItems \cup {<<35, 97>>}}

\* one pass over the content: the route makes the first
StripPass ==
    /\ cleanedContent.passes < MaxPasses
    /\ cleanedContent' = [cleanedContent EXCEPT
                            !.passes = @ + 1,
                            !.value = StripCodeFences(@)]
    /\ UNCHANGED parsed
    /\ UNCHANGED outsideYaml

\* one pass over the parsed document: the route makes the first
CleanPass ==
    /\ parsed.passes < MaxPasses
    /\ parsed' = [parsed EXCEPT !.passes = @ + 1, !.value = CleanDocument(@)]
    /\ UNCHANGED cleanedContent
    /\ UNCHANGED outsideYaml

InitYaml ==
    /\ now = 0
    /\ calls = 0
    /\ cache = <<>>
    /\ maxSize = MAX_CACHE_SIZE
    /\ pendingRequests = <<>>
    /\ performanceHistory = <<>>
    /\ caller = [c \in Clients |-> Idle]
    /\ outcome = [c \in Clients |-> NoOutcome]
    /\ req = [c \in Clients |-> NoReq]
    /\ srv = [c \in Clients |-> NoSrv]
    /\ fetches = NoFetches
    /\ returned = NoReturn
    /\ inserted = <<>>
    /\ requestParams = NoParams
    /\ fingerprint = NoFingerprint
    /\ form = NoForm
    /\ text = <<>>
    /\ detection = NoDetection
    /\ translationCache = <<>>
    /\ post = NoPost
    /\ \/ /\ \E c \in FencedContents :
                cleanedContent = [content |-> c, passes |-> 0, value |-> c]
          /\ parsed = NoDocument
       \/ /\ cleanedContent = NoContent
          /\ \E d \in Documents :
                parsed = [document |-> d, passes |-> 0, value |-> d]

NextYaml == StripPass \/ CleanPass

SpecYaml == InitYaml /\ [][NextYaml]_vars

\* ------------------------------------------------------------- properties
Running(c) == req[c].pc \in {"fetch", "sleep"}

Ok(result) == [kind |-> "ok", value |-> result, error |-> NoError]
Err(e) == [kind |-> "err", value |-> NoResult, error |-> e]

TimeoutMsg == "Request timeout - please try again"
ParseMsg == "Failed to parse YAML from API response."

\* C1: a call for a fingerprint whose request is still in flight starts no
\* second request and awaits the promise of the one in flight; when a request
\* settles, every caller awaiting its promise settles in that step with the
\* one outcome of the request, its result or its error.
C1_DedupCollapsing ==
    [][/\ \A c \in Clients, p \in ParamsSet :
            (/\ enhancePromptOptimized(c, p)
             /\ \E d \in Clients : Running(d) /\ req[d].key = createCacheKey(p))
            => /\ req' = req
               /\ srv' = srv
               /\ \E d \in Clients :
                     /\ Running(d) /\ req[d].key = createCacheKey(p)
                     /\ caller'[c] = [pc |-> "await", promise |-> d]
       /\ \A d \in Clients :
            (req[d].pc # "none" /\ req'[d].pc = "none")
            => \A w \in Clients :
                  (caller[w].pc = "await" /\ caller[w].promise = d)
                  => /\ caller'[w].pc = "idle"
                     /\ outcome'[w] = IF req[d].pc = "returned"
                                      THEN Ok(req[d].result)
                                      ELSE Err(req[d].error)
      ]_vars

\* two calls were made, one request ran, and both callers hold its result
C1_Witness ==
    /\ calls = 2
    /\ Len(performanceHistory) = 1
    /\ outcome["c1"].kind = "ok"
    /\ ~outcome["c1"].value.fromCache
    /\ outcome["c2"] = outcome["c1"]

\* C2: at most one request (one makeRequest chain, one outstanding POST) is
\* in flight per fingerprint.
C2_OneInFlightPerKey ==
    \A k \in Keys :
        Cardinality({c \in Clients : req[c].pc # "none" /\ req[c].key = k}) <= 1

\* a second caller awaits the request of the first while it sleeps before a
\* retry
C2_Witness ==
    \E c, d \in Clients :
        /\ c # d
        /\ req[c].pc = "sleep"
        /\ req[d].pc = "none"
        /\ caller[d] = [pc |-> "await", promise |-> c]

\* C3: a call made while the cache holds an entry for its fingerprint with
\* now - timestamp <= ttl returns that entry's data with cacheHit = true and
\* fromCache = true, starts no request and registers nothing.
C3_CacheHitPath ==
    [][\A c \in Clients, p \in ParamsSet :
          (/\ enhancePromptOptimized(c, p)
           /\ \E i \in 1..Len(cache) :
                 /\ cache[i].key = createCacheKey(p)
                 /\ now - cache[i].timestamp <= cache[i].ttl)
          => /\ \E i \in 1..Len(cache) :
                   /\ cache[i].key = createCacheKey(p)
                   /\ outcome'[c].kind = "ok"
                   /\ outcome'[c].value.yaml = cache[i].data.yaml
                   /\ outcome'[c].value.fromCache
                   /\ outcome'[c].value.metrics.cacheHit
             /\ caller'[c].pc = "idle"
             /\ req' = req
             /\ srv' = srv
             /\ pendingRequests' = pendingRequests
      ]_vars

\* a caller holds a result served from an entry that is exactly ttl old
C3_Witness ==
    \E c \in Clients, i \in 1..Len(cache) :
        /\ outcome[c].kind = "ok"
        /\ outcome[c].value.fromCache
        /\ outcome[c].value.yaml = cache[i].data.yaml
        /\ now - cache[i].timestamp = cache[i].ttl

\* C4: a call that misses starts exactly one request; when its transport
\* succeeds the result is stored under the fingerprint with timestamp now and
\* ttl CACHE_TTL and carries cacheHit = false; an identical call made while
\* that entry is within its ttl gets the stored result with cacheHit = true and
\* starts no request.
C4_SuccessPopulatesCache ==
    [][/\ \A c \in Clients :
            (req[c].pc = "none" /\ req'[c].pc # "none")
            => /\ req'[c].pc = "fetch" /\ req'[c].attempt = 1
               /\ \A d \in Clients \ {c} : req'[d] = req[d]
       /\ \A c \in Clients :
            (req[c].pc = "fetch" /\ req'[c].pc = "returned")
            => /\ ~req'[c].result.fromCache
               /\ ~req'[c].result.metrics.cacheHit
               /\ \E i \in 1..Len(cache') :
                     cache'[i] = [key |-> req[c].key, data |-> req'[c].result,
                                  timestamp |-> now, ttl |-> CACHE_TTL]
       /\ \A c, w \in Clients, p \in ParamsSet :
            (/\ enhancePromptOptimized(c, p)
             /\ outcome[w].kind = "ok" /\ ~outcome[w].value.fromCache
             /\ \E i \in 1..Len(cache) :
                   /\ cache[i].key = createCacheKey(p)
                   /\ cache[i].data = outcome[w].value
                   /\ now - cache[i].timestamp <= CACHE_TTL)
            => /\ outcome'[c] = Ok([outcome[w].value EXCEPT
                                       !.metrics.cacheHit = TRUE, !.fromCache = TRUE])
               /\ req' = req
               /\ srv' = srv
      ]_vars

\* two sequential identical calls: the first went to the transport, the
\* second was served from its entry, one request in total
C4_Witness ==
    \E c, w \in Clients :
        /\ calls = 2
        /\ Len(performanceHistory) = 1
        /\ outcome[w].kind = "ok" /\ ~outcome[w].value.fromCache
        /\ outcome[c] = Ok([outcome[w].value EXCEPT
                               !.metrics.cacheHit = TRUE, !.fromCache = TRUE])
        /\ \A d \in Clients : req[d].pc = "none"

C6_RegistrationRemoved ==
    /\ [](\A i \in 1..Len(pendingRequests) :
            /\ req[pendingRequests[i][2]].pc # "none"
            /\ req[pendingRequests[i][2]].key = pendingRequests[i][1])
    /\ [][/\ \A c \in Clients :
               (req[c].pc \in {"returned", "threw"} /\ req'[c].pc = "none")
               => ~PendingHas(pendingRequests', req[c].key)
          /\ \A c \in Clients, p \in ParamsSet :
               (/\ enhancePromptOptimized(c, p)
                /\ outcome'[c].kind = "none"
                /\ \A d \in Clients : ~(req[d].pc # "none" /\ req[d].key = createCacheKey(p)))
               => /\ req'[c].pc = "fetch" /\ req'[c].attempt = 1
                  /\ caller'[c] = [pc |-> "await", promise |-> c]
                  /\ PendingGet(pendingRequests', createCacheKey(p)) = c
         ]_vars

\* a request failed and settled, nothing is pending
C6_Witness ==
    /\ pendingRequests = <<>>
    /\ \A c \in Clients : req[c].pc = "none"
    /\ \E w \in Clients : outcome[w].kind = "err"

\* C9 as claimed: a timeout before the third attempt leads to a backoff sleep
\* and another attempt.
C9_TimeoutRetried ==
    [][\A c \in Clients :
          (Timeout(c) /\ req[c].attempt < MAX_RETRIES) => req'[c].pc = "sleep"
      ]_vars

\* C9 amended: a timeout is not retried; the attempt is aborted and
\* makeRequest throws the timeout error at once, on whichever attempt it
\* happens, so no further POST is made for the call.
C9_TimeoutNotRetried ==
    /\ [][\A c \in Clients :
             Timeout(c)
             => /\ req'[c].pc = "threw"
                /\ req'[c].error.msg = TimeoutMsg
                /\ req'[c].attempt = req[c].attempt
         ]_vars
    /\ [][\A c \in Clients :
             (req[c].pc = "threw" /\ req[c].error.msg = TimeoutMsg)
             => req'[c].pc \in {"threw", "none"}
         ]_vars

\* the first attempt timed out and the call has failed with two attempts
\* unused
C9_Witness ==
    \E c \in Clients :
        /\ req[c].pc = "threw"
        /\ req[c].error.msg = TimeoutMsg
        /\ req[c].attempt = 1

AppError == Error("upstream says no", "")
RetryCatchMsgs == {"fetch failed", "API error 429", "API error 500", "Unknown API error"}

\* C7: neither makeRequest nor requestWithRetry makes a fourth attempt; a
\* non-2xx answer or a network failure before the third attempt is followed by
\* a backoff sleep and the next attempt, and on the third attempt the error of
\* that attempt is what is thrown.
C7_RetryBound ==
    /\ [](/\ req[Route].attempt <= MAX_RETRIES
          /\ srv[Route].attempt <= ATTEMPTS
          /\ (req[Route].pc = "threw" /\ req[Route].error.msg # TimeoutMsg)
                => req[Route].attempt = MAX_RETRIES
          /\ (srv[Route].pc = "responded"
                /\ srv[Route].response.error.msg \in RetryCatchMsgs)
                => srv[Route].attempt = ATTEMPTS)
    /\ [][/\ (RouteResponds(Route) /\ ~srv[Route].response.ok)
               => IF req[Route].attempt < MAX_RETRIES
                  THEN req'[Route].pc = "sleep"
                  ELSE /\ req'[Route].pc = "threw"
                       /\ req'[Route].error = srv[Route].response.error
          /\ FetchFails(Route)
               => IF req[Route].attempt < MAX_RETRIES
                  THEN req'[Route].pc = "sleep"
                  ELSE /\ req'[Route].pc = "threw"
                       /\ req'[Route].error.msg = "Failed to fetch"
          /\ (req[Route].pc = "sleep" /\ req'[Route].pc # "sleep")
               => /\ req'[Route].pc = "fetch"
                  /\ req'[Route].attempt = req[Route].attempt + 1
          /\ \A kind \in {"500", "429", "network"} :
               UpstreamRespond(Route, [kind |-> kind, content |-> ""])
               => IF srv[Route].attempt < ATTEMPTS
                  THEN srv'[Route].pc = "backoff"
                  ELSE /\ srv'[Route].pc = "responded"
                       /\ ~srv'[Route].response.ok
                       /\ srv'[Route].response.error.msg =
                             (CASE kind = "500" -> "API error 500"
                                [] kind = "429" -> "API error 429"
                                [] OTHER -> "fetch failed")
          /\ (srv[Route].pc = "backoff" /\ srv'[Route].pc \notin {"backoff", "none"})
               => /\ srv'[Route].pc = "upstream"
                  /\ srv'[Route].attempt = srv[Route].attempt + 1
         ]_vars

\* the third POST was answered by a handler whose third upstream attempt
\* failed, and makeRequest has thrown that error
C7_Witness ==
    /\ req[Route].pc = "threw"
    /\ req[Route].attempt = MAX_RETRIES
    /\ req[Route].error.msg = "API error 500"

\* C8 as claimed: a parsed answer that carries an error field is surfaced at
\* once, without a sleep and without a further attempt.
C8_AppErrorNotRetried ==
    [][/\ Responds(Route, [ok |-> TRUE, yaml |-> Undefined, error |-> AppError])
            => /\ req'[Route].pc = "threw"
               /\ req'[Route].error = AppError
       /\ UpstreamRespond(Route, [kind |-> "payloadError", content |-> ""])
            => /\ srv'[Route].pc = "responded"
               /\ srv'[Route].response.error.msg = "Unknown API error"
      ]_vars

\* C8 amended: the error of a parsed answer that carries an error field is
\* thrown inside the retry scope and handled like any other failure: before
\* the third attempt a backoff sleep and a further attempt follow, and only on
\* the third attempt is it surfaced.
C8_AppErrorRetried ==
    [][/\ Responds(Route, [ok |-> TRUE, yaml |-> Undefined, error |-> AppError])
            => IF req[Route].attempt < MAX_RETRIES
               THEN /\ req'[Route].pc = "sleep"
                    /\ req'[Route].delay >= RETRY_DELAY
               ELSE /\ req'[Route].pc = "threw"
                    /\ req'[Route].error = AppError
       /\ UpstreamRespond(Route, [kind |-> "payloadError", content |-> ""])
            => IF srv[Route].attempt < ATTEMPTS
               THEN /\ srv'[Route].pc = "backoff"
                    /\ srv'[Route].delay = DELAY * srv[Route].attempt
               ELSE /\ srv'[Route].pc = "responded"
                    /\ srv'[Route].response.error.msg = "Unknown API error"
      ]_vars

\* the handler answers with the upstream's error message after its third
\* upstream attempt
C8_Witness ==
    /\ srv[Route].pc = "responded"
    /\ srv[Route].attempt = ATTEMPTS
    /\ srv[Route].response.error.msg = "Unknown API error"

\* C10 as claimed: after content that is no valid YAML the handler answers
\* with the raw content and makes no further upstream call, and the client
\* surfaces that answer without a further POST.
C10_ParseErrorNotRetried ==
    [][/\ UpstreamRespond(Route, [kind |-> "ok", content |-> "bad"])
            => /\ srv'[Route].pc = "responded"
               /\ srv'[Route].response.error = Error(ParseMsg, "bad")
       /\ (RouteResponds(Route) /\ srv[Route].response.error.msg = ParseMsg)
            => /\ req'[Route].pc = "threw"
               /\ req'[Route].error = srv[Route].response.error
      ]_vars

\* C10 amended: the handler does not retry a parse error: on whichever
\* upstream attempt the content fails to parse it answers 500 with the raw
\* content in the message and makes no further upstream call; the client
\* handles that 500 like any non-2xx answer, sleeping and posting again before
\* the third attempt and surfacing the parse error with the raw content on the
\* third.
C10_ParseErrorRetriedByClient ==
    [][/\ UpstreamRespond(Route, [kind |-> "ok", content |-> "bad"])
            => /\ srv'[Route].pc = "responded"
               /\ ~srv'[Route].response.ok
               /\ srv'[Route].response.error = Error(ParseMsg, "bad")
               /\ srv'[Route].attempt = srv[Route].attempt
       /\ (srv[Route].pc = "responded" /\ srv'[Route] # srv[Route])
            => srv'[Route].pc = "none"
       /\ (RouteResponds(Route) /\ srv[Route].response.error.msg = ParseMsg)
            => IF req[Route].attempt < MAX_RETRIES
               THEN req'[Route].pc = "sleep"
               ELSE /\ req'[Route].pc = "threw"
                    /\ req'[Route].error = Error(ParseMsg, "bad")
      ]_vars

\* the third POST ended in a parse error too and the call has failed with
\* the raw content
C10_Witness ==
    /\ req[Route].pc = "threw"
    /\ req[Route].attempt = MAX_RETRIES
    /\ req[Route].error = Error(ParseMsg, "bad")

\* C11: right after set(k, v, ttl) the cache holds for k an entry with v,
\* written at the present instant, and get(k) serves v; get(k) serves the
\* entry's data and leaves the cache as it is exactly when the entry's age,
\* now - timestamp, is at most its ttl; for an older entry get(k) returns
\* null and deletes it, the size going down by one; get of an absent key
\* returns null and changes nothing.
C11_TtlCache ==
    [][/\ \A k \in CacheKeys, v \in CacheValues, ttl \in Ttls :
            APICache_set(k, v, ttl)
            => /\ \E i \in 1..Len(cache') :
                     cache'[i] = [key |-> k, data |-> v,
                                  timestamp |-> now, ttl |-> ttl]
               /\ CacheHas(cache', k, now')
               /\ CacheData(cache', k) = v
       /\ \A k \in CacheKeys :
            APICache_get(k)
            => IF \E i \in 1..Len(cache) : cache[i].key = k
               THEN LET e == cache[CHOOSE i \in 1..Len(cache) : cache[i].key = k]
                    IN IF now - e.timestamp > e.ttl
                       THEN /\ returned'.value = Null
                            /\ Len(cache') = Len(cache) - 1
                            /\ \A i \in 1..Len(cache') : cache'[i].key # k
                       ELSE /\ returned'.value = e.data
                            /\ cache' = cache
               ELSE /\ returned'.value = Null
                    /\ cache' = cache
      ]_vars

\* an entry exactly as old as its ttl has just been served
C11_Witness ==
    /\ returned.op = "get"
    /\ returned.value \in CacheValues
    /\ \E i \in 1..Len(cache) :
          /\ cache[i].data = returned.value
          /\ now - cache[i].timestamp = cache[i].ttl
          /\ \A j \in 1..Len(cache) : j # i => cache[j].data # returned.value

\* C12: the cache never holds more than maxSize entries, and its keys stand
\* in the order of their insertion; a set at capacity deletes exactly the
\* entry of the key inserted longest ago, before it writes, and no other; a
\* get that serves an entry moves nothing.
C12_CapacityEviction ==
    /\ [](Len(cache) <= maxSize /\ CacheKeysOf(cache) = inserted)
    /\ [][/\ \A k \in CacheKeys, v \in CacheValues, ttl \in Ttls :
               (APICache_set(k, v, ttl) /\ Len(cache) >= maxSize)
               => /\ returned'.firstKey = Head(inserted)
                  /\ SelectSeq(cache', LAMBDA e : e.key # k)
                        = SelectSeq(Tail(cache), LAMBDA e : e.key # k)
                  /\ \E i \in 1..Len(cache') : cache'[i].key = k
          /\ \A k \in CacheKeys :
               (APICache_get(k) /\ returned'.value # Null) => cache' = cache
         ]_vars

\* a set at capacity has deleted the entry of the key inserted longest ago:
\* the key is gone and the cache is full again
C12_Witness ==
    /\ returned.op = "set"
    /\ returned.firstKey \in CacheKeys
    /\ Len(cache) = maxSize
    /\ \A i \in 1..Len(cache) : cache[i].key # returned.firstKey

\* the rearrangements of a list
Rearrangements(list) ==
    {[i \in 1..Len(list) |-> list[f[i]]] :
        f \in {g \in [1..Len(list) -> 1..Len(list)] :
                 \A i, j \in 1..Len(list) : i # j => g[i] # g[j]}}

ListOf(p, cat) ==
    IF p.techStack[cat] = UndefinedList THEN <<>> ELSE p.techStack[cat]

\* the objects that differ from p in the text fields only, or in the list of
\* one category only
Neighbours(p) ==
    {[p EXCEPT !.userInput = t, !.selectorPath = sp] :
        t \in KeyTexts, sp \in KeySelectors}
    \cup {[p EXCEPT !.techStack[cat] = l] : cat \in Categories, l \in KeyLists}
    \cup {[p EXCEPT !.techStack.uiComponents = UndefinedList]}

\* C13: a call of createCacheKey leaves the caller's object as it was, every
\* list in the order the caller gave it; a further call on the same object
\* returns the same fingerprint; and the fingerprint is that of every object
\* obtained by rearranging the elements of one category's list.
C13_FingerprintDeterminism ==
    [][CallCreateCacheKey
       => /\ requestParams' = requestParams
          /\ fingerprint # NoFingerprint => fingerprint' = fingerprint
          /\ \A cat \in Categories :
                \A l \in Rearrangements(ListOf(requestParams, cat)) :
                   createCacheKey([requestParams EXCEPT !.techStack[cat] = l])
                      = fingerprint'
      ]_vars

\* the fingerprint of an object whose list is out of order has been taken:
\* it holds the list sorted, the object holds it as it was
C13_Witness ==
    /\ fingerprint # NoFingerprint
    /\ requestParams.techStack.frontend = <<<<98>>, <<97>>>>
    /\ fingerprint.techStack.frontend = <<<<97>>, <<98>>>>

\* the lists a and b hold the same elements, each as many times
SameElements(a, b) ==
    /\ Len(a) = Len(b)
    /\ \A i \in 1..Len(a) :
          Cardinality({j \in 1..Len(a) : a[j] = a[i]})
             = Cardinality({j \in 1..Len(b) : b[j] = a[i]})

\* the content of an object with every text field trimmed and lowercased and
\* every list element trimmed and lowercased, the lists then sorted
TrimmedLowercasedContent(p) ==
    [input |-> ToLowerCase(Trim(p.userInput)),
     wordLimit |-> p.wordLimit,
     selectorPath |-> IF p.selectorPath = UndefinedText
                      THEN <<>>
                      ELSE ToLowerCase(Trim(p.selectorPath)),
     techStack |-> [cat \in Categories |->
                      Sort([i \in 1..Len(ListOf(p, cat)) |->
                              ToLowerCase(Trim(ListOf(p, cat)[i]))])]]

\* C14 as stated: two objects whose content is equal once the text fields
\* and the list elements are trimmed and lowercased and the lists sorted
\* have the same fingerprint.
C14_ListElementsNormalized ==
    fingerprint # NoFingerprint
    => \A q \in Neighbours(requestParams) :
          TrimmedLowercasedContent(q) = TrimmedLowercasedContent(requestParams)
          => createCacheKey(q) = fingerprint

\* equal content as the fingerprint has it: the word limits equal, the text
\* fields equal once trimmed and lowercased (no selector path being the empty
\* one), and each list a rearrangement of the other's (no list being the
\* empty one)
SameContent(p, q) ==
    /\ p.wordLimit = q.wordLimit
    /\ ToLowerCase(Trim(p.userInput)) = ToLowerCase(Trim(q.userInput))
    /\ (IF p.selectorPath = UndefinedText THEN <<>>
        ELSE ToLowerCase(Trim(p.selectorPath)))
       = (IF q.selectorPath = UndefinedText THEN <<>>
          ELSE ToLowerCase(Trim(q.selectorPath)))
    /\ \A cat \in Categories : SameElements(ListOf(p, cat), ListOf(q, cat))

\* C14: two objects have the same fingerprint exactly when their text fields
\* are equal once trimmed and lowercased and their lists hold the same
\* elements, compared as they are written, in any order.
C14_ListsOnlySorted ==
    fingerprint # NoFingerprint
    => \A q \in Neighbours(requestParams) :
          createCacheKey(q) = fingerprint <=> SameContent(requestParams, q)

\* the fingerprint of an object with "A" in a list has been taken, and it is
\* not the fingerprint of the object with "a" or with " A" in its place
C14_Witness ==
    /\ fingerprint # NoFingerprint
    /\ requestParams.techStack.frontend = <<<<65>>>>
    /\ createCacheKey([requestParams EXCEPT !.techStack.frontend = <<<<97>>>>])
          # fingerprint
    /\ requestParams.userInput = <<32, 65, 66>>
    /\ createCacheKey([requestParams EXCEPT !.userInput = <<97, 98>>]) = fingerprint

\* C15 as stated: whenever the form has a POST sent, by its submit button or
\* by its regenerate control, first or retried, the text sent has between 10
\* and 4000 characters and the selector sent passes the selector check.
C15_MalformedNeverPosted ==
    [][(req[Route].pc # "fetch" /\ req'[Route].pc = "fetch")
       => /\ Len(req'[Route].params.userInput) >= 10
          /\ Len(req'[Route].params.userInput) <= 4000
          /\ SelectorValid(req'[Route].params.selectorPath)
      ]_vars

\* "the and of in on"
StopWordsText ==
    <<116, 104, 101, 32, 97, 110, 100, 32, 111, 102, 32, 105, 110, 32, 111, 110>>

\* C18: detectLanguage on the English stop words "the and of in on" yields
\* language "en" and needsTranslation = false.
C18_EnglishStopWords ==
    (text = StopWordsText /\ detection # NoDetection)
        => (detection.language = "en" /\ ~detection.needsTranslation)

\* the stop words were classified: 7 matches over 16 code units, above the
\* threshold, and English
C18_Witness ==
    /\ text = StopWordsText
    /\ detection # NoDetection
    /\ detection.isEnglish
    /\ detection.confidence = [num |-> 7, den |-> 16]
    /\ AboveThreshold(detection.confidence.num, detection.confidence.den)

\* C19: detectLanguage on the Cyrillic text yields a language other than
\* English with needsTranslation = true.
C19_CyrillicNeedsTranslation ==
    (text = CyrillicText /\ detection # NoDetection)
        => (detection.language # "en" /\ detection.needsTranslation)

RECURSIVE TopScore(_, _)
TopScore(scores, l) ==
    IF l > Len(scores) THEN 0
    ELSE IF scores[l] >= TopScore(scores, l + 1) THEN scores[l]
    ELSE TopScore(scores, l + 1)

\* C20: the detected language is the first language of the table among those
\* with the highest score, "unknown" when no pattern matches; needsTranslation
\* is true exactly when that language is not English and its score over the
\* trimmed length is strictly greater than 0.3.
C20_DecisionRule ==
    (detection # NoDetection /\ Trim(text) # <<>>) =>
        LET scores == Scores(Trim(text))
            top == TopScore(scores, 1)
        IN /\ IF top = 0
              THEN detection.language = "unknown"
              ELSE \E l \in 1..Len(LANGUAGE_PATTERNS) :
                      /\ detection.language = LANGUAGE_PATTERNS[l].lang
                      /\ scores[l] = top
                      /\ \A h \in 1..(l - 1) : scores[h] < top
           /\ detection.confidence = [num |-> top, den |-> Len(Trim(text))]
           /\ detection.needsTranslation
                  <=> (/\ detection.language # "en"
                       /\ 10 * top > 3 * Len(Trim(text)))

\* "la la la x"
TieAtThresholdText ==
    <<108, 97, 32, 108, 97, 32, 108, 97, 32, 120>>

\* Spanish, French and Italian tie at 3 matches over 10 code units, which is
\* exactly 0.3: the first of them in the table is detected, and no
\* translation is asked for
C20_Witness ==
    /\ text = TieAtThresholdText
    /\ detection # NoDetection
    /\ detection.language = "es"
    /\ detection.confidence = [num |-> 3, den |-> 10]
    /\ ~detection.needsTranslation
    /\ Cardinality({l \in 1..Len(LANGUAGE_PATTERNS) :
                        Scores(text)[l] = 3}) = 3

\* the messages of the errors thrown inside the translation service
TranslationFailures == {TypeErrorMsg, ReferenceErrorMsg}

\* C16: a failure inside the translation service never ends the request: the
\* handler goes on to the upstream call, with the userInput of the body when
\* the translation threw, and no response of the route carries the message of
\* a translation failure.
C16_TranslationNeverBlocks ==
    /\ [](/\ post.translation.kind = "threw" =>
               /\ post.pc = "upstream"
               /\ post.processedBody.userInput = post.body.userInput
          /\ post.response.error.msg \notin TranslationFailures
          /\ srv[Route].response.error.msg \notin TranslationFailures)
    /\ [][(post.pc = "none" /\ post'.pc # "none")
              => (post'.pc = "upstream" /\ srv'[Route] = POSTStart)]_vars

\* the translation of "le la de" threw and the upstream answered the request
\* made with that text: the handler is about to return a yaml
C16_Witness ==
    /\ post.pc = "upstream"
    /\ post.translation = Threw(ReferenceErrorMsg)
    /\ post.body.userInput = <<108, 101, 32, 108, 97, 32, 100, 101>>
    /\ post.processedBody.userInput = post.body.userInput
    /\ srv[Route].pc = "responded"
    /\ srv[Route].response.ok

\* C17: for a text whose detection has needsTranslation = true the translator
\* returns a result, and its translatedText differs from the text: a
\* strategy's translation, or the text with the passthrough instruction.
C17_AlwaysReturnsText ==
    (/\ post.pc = "upstream"
     /\ post.body.userInput # NumberInput
     /\ detectLanguage(post.body.userInput).needsTranslation)
        => /\ post.translation.kind = "returned"
           /\ post.translation.result.translatedText # post.body.userInput

\* C21: in requestWithRetry an answer 429 before the last attempt is followed
\* by one sleep of delay x attempt (750 ms before attempt 2, 1500 ms before
\* attempt 3, never less than the sleep before) and then by the next attempt;
\* an answer 429 to the last attempt ends the request with its error, with no
\* sleep.
C21_RateLimitBackoff ==
    [][/\ \A o \in UpstreamOutcomes :
             (/\ o.kind = "429"
              /\ srv[Route].pc = "upstream"
              /\ srv'[Route] = requestWithRetry(srv[Route], o))
                => IF srv[Route].attempt < ATTEMPTS
                   THEN /\ srv'[Route].pc = "backoff"
                        /\ srv'[Route].attempt = srv[Route].attempt
                        /\ srv'[Route].delay = DELAY * srv[Route].attempt
                        /\ srv'[Route].delay >= srv[Route].delay
                        /\ srv'[Route].delay
                              = IF srv[Route].attempt = 1 THEN 750 ELSE 1500
                   ELSE /\ srv'[Route].pc = "responded"
                        /\ srv'[Route].response.error.msg = "API error 429"
       /\ (srv[Route].pc = "backoff" /\ srv'[Route] # srv[Route])
             => /\ srv'[Route].pc = "upstream"
                /\ srv'[Route].attempt = srv[Route].attempt + 1
      ]_vars

\* the third attempt was answered 429 after sleeps of 750 ms and 1500 ms: the
\* handler answers with that error
C21_Witness ==
    /\ srv[Route].pc = "responded"
    /\ srv[Route].attempt = ATTEMPTS
    /\ srv[Route].delay = 1500
    /\ srv[Route].response.error.msg = "API error 429"

\* the weight C22 gives a match: 3 for the Han, Arabic and Devanagari ranges,
\* 2 for the English pattern of common words (the|and|or|but|...), 1 otherwise
ClaimedWeight(lang, p) ==
    IF /\ p.kind = "class"
       /\ p.ranges \in {<<<<19968, 40959>>>>, <<<<1536, 1791>>>>, <<<<2304, 2431>>>>}
    THEN 3
    ELSE IF /\ lang = "en"
            /\ p.kind = "words"
            /\ SubSeq(p.words, 1, 4)
                  = <<<<116, 104, 101>>, <<97, 110, 100>>, <<111, 114>>, <<98, 117, 116>>>>
    THEN 2
    ELSE 1

RECURSIVE ClaimedScore(_, _, _)
ClaimedScore(s, l, k) ==
    IF k > Len(LANGUAGE_PATTERNS[l].patterns) THEN 0
    ELSE MatchCount(s, LANGUAGE_PATTERNS[l].patterns[k])
            * ClaimedWeight(LANGUAGE_PATTERNS[l].lang, LANGUAGE_PATTERNS[l].patterns[k])
         + ClaimedScore(s, l, k + 1)

\* C22: the score of each language, before it is divided by the length, is
\* the number of matches of its patterns, a match of a Han, Arabic or
\* Devanagari range counted 3 times and a match of the English common-word
\* pattern twice.
C22_WeightedScoring ==
    (detection # NoDetection /\ Trim(text) # <<>>) =>
        /\ \A l \in 1..Len(LANGUAGE_PATTERNS) :
              Scores(Trim(text))[l] = ClaimedScore(Trim(text), l, 1)
        /\ \A l \in 1..Len(LANGUAGE_PATTERNS) :
              LANGUAGE_PATTERNS[l].lang = detection.language
                 => detection.confidence.num = ClaimedScore(Trim(text), l, 1)

\* C23: the confidence detectLanguage reports is between 0 and 1: the score
\* of the detected language is at most the length of the trimmed text.
C23_ConfidenceInUnitInterval ==
    detection # NoDetection =>
        /\ detection.confidence.num >= 0
        /\ detection.confidence.num <= detection.confidence.den

HasFence(s) == Includes(s, Fence)

EndsWithFence(s) == Len(s) >= 3 /\ SubSeq(s, Len(s) - 2, Len(s)) = Fence

NoEmptyCategory(d) ==
    d.tech_stack.kind = "map" =>
        \A k \in DOMAIN d.tech_stack.map : ~IsEmptyCategory(d.tech_stack.map[k])

\* C24 as stated: stripping the fences of content that has none leaves it
\* unchanged, removing the empty categories of a document that has none
\* leaves its tech stack unchanged, and a second pass of either step changes
\* nothing.
C24_PostProcessingIdempotent ==
    [][/\ cleanedContent' # cleanedContent =>
            /\ (cleanedContent.passes = 0 /\ ~HasFence(cleanedContent.value))
                  => cleanedContent'.value = cleanedContent.value
            /\ cleanedContent.passes >= 1
                  => cleanedContent'.value = cleanedContent.value
       /\ parsed' # parsed =>
            /\ (parsed.passes = 0 /\ NoEmptyCategory(parsed.value))
                  => parsed'.value.tech_stack = parsed.value.tech_stack
            /\ parsed.passes >= 1 => parsed'.value = parsed.value]_vars

\* C24, amended: stripping the fences of content that has none trims it and
\* changes nothing else; a second pass over content without a fence, or over
\* a first result with no fence at either end, changes nothing; removing the
\* empty categories of a document that has none leaves its tech stack
\* unchanged, and a second pass over a document changes nothing.
C24_PostProcessingUpToTrim ==
    [][/\ cleanedContent' # cleanedContent =>
            /\ (cleanedContent.passes = 0 /\ ~HasFence(cleanedContent.value))
                  => cleanedContent'.value = Trim(cleanedContent.value)
            /\ (cleanedContent.passes >= 1 /\ ~HasFence(cleanedContent.content))
                  => cleanedContent'.value = cleanedContent.value
            /\ (/\ cleanedContent.passes >= 1
                /\ ~StartsWith(cleanedContent.value, Fence, FALSE)
                /\ ~EndsWithFence(cleanedContent.value))
                  => cleanedContent'.value = cleanedContent.value
       /\ parsed' # parsed =>
            /\ (parsed.passes = 0 /\ NoEmptyCategory(parsed.value))
                  => parsed'.value.tech_stack = parsed.value.tech_stack
            /\ parsed.passes >= 1 => parsed'.value = parsed.value]_vars

\* content without a fence and with a space around it went through two passes
C24_Witness ==
    /\ cleanedContent.passes = MaxPasses
    /\ ~HasFence(cleanedContent.content)
    /\ cleanedContent.content # Trim(cleanedContent.content)
    /\ cleanedContent.value = Trim(cleanedContent.content)
    /\ cleanedContent.value # <<>>

\* lists that are easily taken for one another: of a, of a and b in both
\* orders, of a twice, of A, and of the one string a","b and the one a,b
LookalikeLists ==
    {<<>>, <<<<97>>>>, <<<<97>>, <<98>>>>, <<<<98>>, <<97>>>>,
     <<<<97>>, <<97>>>>, <<<<65>>>>, <<<<97, 34, 44, 34, 98>>>>,
     <<<<97, 44, 98>>>>}

\* the objects that differ from p in the text fields and the word limit, in
\* the list of one category, or by the lists of two categories exchanged
Lookalikes(p) ==
    {[p EXCEPT !.userInput = t, !.selectorPath = sp, !.wordLimit = w] :
        t \in KeyTexts, sp \in KeySelectors, w \in WordLimits}
    \cup {[p EXCEPT !.techStack[cat] = l] :
             cat \in Categories, l \in LookalikeLists}
    \cup {[p EXCEPT !.techStack.frontend = p.techStack.backend,
                    !.techStack.backend = p.techStack.frontend]}

\* C25: an object whose word limit, trimmed and lowercased text or selector
\* path (none counting as the empty one), or elements of some category differ
\* from those of the object whose fingerprint was taken has another
\* fingerprint, as the string JSON.stringify returns.
C25_FingerprintInjective ==
    fingerprint # NoFingerprint
    => \A q \in Lookalikes(requestParams) :
          ~SameContent(requestParams, q)
          => JSONStringify(createCacheKey(q)) # JSONStringify(fingerprint)

\* the fingerprint of an object with a and b in a list has been taken, and it
\* is neither that of the object with the one element a","b nor that of the
\* object with the other word limit
C25_Witness ==
    /\ fingerprint # NoFingerprint
    /\ requestParams.techStack.frontend = <<<<98>>, <<97>>>>
    /\ requestParams.wordLimit = 100
    /\ JSONStringify(createCacheKey(
          [requestParams EXCEPT !.techStack.frontend = <<<<97, 34, 44, 34, 98>>>>]))
          # JSONStringify(fingerprint)
    /\ JSONStringify(createCacheKey([requestParams EXCEPT !.wordLimit = 500]))
          # JSONStringify(fingerprint)

\* C26: a step that empties the performance history (clearCache) leaves the
\* pending registrations, the requests in flight and their callers as they
\* were; a caller that asks for a pending key that is not cached joins its
\* promise and no request is made for it; and a request that returns data has
\* its result in the cache under its key and one more entry in the history.
C26_ClearCacheKeepsInFlight ==
    [][/\ (performanceHistory # <<>> /\ performanceHistory' = <<>>)
          => /\ cache' = <<>>
             /\ pendingRequests' = pendingRequests
             /\ req' = req
             /\ caller' = caller
       /\ \A c \in Clients, p \in ParamsSet :
             (/\ enhancePromptOptimized(c, p)
              /\ PendingHas(pendingRequests, createCacheKey(p))
              /\ ~CacheHas(cache, createCacheKey(p), now))
             => /\ caller'[c].pc = "await"
                /\ caller'[c].promise
                      = PendingGet(pendingRequests, createCacheKey(p))
                /\ req' = req
       /\ \A c \in Clients :
             (req[c].pc = "fetch" /\ req'[c].pc = "returned")
             => /\ CacheHas(cache', req[c].key, now)
                /\ CacheData(cache', req[c].key) = req'[c].result
                /\ Len(performanceHistory') = Len(performanceHistory) + 1
                /\ PendingHas(pendingRequests', req[c].key)
      ]_vars

\* one caller has the result of a request of its own, a second request has
\* returned after that, and the history holds the second one's entry only:
\* the history was emptied in between, and the second result is cached
C26_Witness ==
    \E c \in Clients, d \in Clients :
        /\ c # d
        /\ outcome[c].kind = "ok"
        /\ ~outcome[c].value.fromCache
        /\ req[d].pc = "returned"
        /\ PendingHas(pendingRequests, req[d].key)
        /\ Len(performanceHistory) = 1
        /\ Len(cache) = 1
        /\ CacheHas(cache, req[d].key, now)

\* C27: a call makes at most MAX_RETRIES POSTs and at most MAX_RETRIES times
\* ATTEMPTS upstream fetches, each POST at most ATTEMPTS of them; an answer
\* that is not 2xx, the route's 500 after its last attempt included, is
\* followed by a further POST while attempts are left; and a call in which
\* nothing went wrong but the upstream answering 429 or 500 is rejected only
\* after 3 POSTs and 9 upstream fetches.
C27_ComposedRetryBound ==
    /\ [](/\ fetches.posts <= MAX_RETRIES
          /\ fetches.upstream <= MAX_RETRIES * ATTEMPTS
          /\ fetches.upstream <= fetches.posts * ATTEMPTS
          /\ req[Route].pc # "none" => fetches.posts = req[Route].attempt
          /\ (req[Route].pc = "threw" /\ fetches.onlyUpstreamErrors)
                => /\ fetches.posts = MAX_RETRIES
                   /\ fetches.upstream = MAX_RETRIES * ATTEMPTS)
    /\ [][/\ (/\ RouteResponds(Route)
              /\ ~srv[Route].response.ok
              /\ req[Route].attempt < MAX_RETRIES)
                => req'[Route].pc = "sleep"
          /\ (req[Route].pc = "sleep" /\ req'[Route].pc = "fetch")
                => /\ srv'[Route].pc = "upstream"
                   /\ fetches'.posts = fetches.posts + 1
                   /\ fetches'.upstream = fetches.upstream + 1]_vars

\* the third POST was answered 500 after the upstream failed nine times
C27_Witness ==
    /\ req[Route].pc = "threw"
    /\ req[Route].error.msg \in {"API error 500", "API error 429"}
    /\ fetches.onlyUpstreamErrors
    /\ fetches.posts = 3
    /\ fetches.upstream = 9

\* C28: no request makes a fourth attempt or sleeps after its third; and,
\* every fetch ending and every timer firing, a caller that awaits a promise
\* gets its outcome, a request that was started ends with its key no longer
\* pending, when a request has ended nobody awaits it any more, and a form
\* that is loading stops loading.
C28_Termination ==
    /\ [](\A c \in Clients :
            /\ req[c].attempt <= MAX_RETRIES
            /\ req[c].pc = "sleep" => req[c].attempt < MAX_RETRIES
            /\ req[c].pc = "none" => Awaiting(c) = {})
    /\ \A c \in Clients :
          (caller[c].pc = "await")
             ~> (caller[c].pc = "idle" /\ outcome[c].kind \in {"ok", "err"})
    /\ \A c \in Clients :
          (req[c].pc # "none")
             ~> /\ req[c].pc = "none"
                /\ \A i \in 1..Len(pendingRequests) : pendingRequests[i][2] # c
    /\ form.isLoading ~> ~form.isLoading

\* the form's request was rejected on its third attempt, the second caller
\* had joined it and has the same error, nothing is pending and the form
\* shows the error and is not loading
C28_Witness ==
    /\ outcome["c1"].kind = "err"
    /\ outcome["c2"] = outcome["c1"]
    /\ outcome["c1"].error.msg = "API error 500"
    /\ pendingRequests = <<>>
    /\ \A c \in Clients : caller[c].pc = "idle" /\ req[c].pc = "none"
    /\ ~form.isLoading
    /\ form.error = "API error 500"

\* C29: a regenerate whose values have an entry in the orchestrator's cache
\* that is not older than its ttl starts no request and is handed the cached
\* document, marked as coming from the cache, and that document is what the
\* form then shows; an entry is served as long as it is not older than
\* CACHE_TTL.
C29_RegenerateServedFromCache ==
    /\ [][/\ (/\ handleRegenerate
              /\ CacheHas(cache, createCacheKey(FormParams(form.values)), now))
                => /\ req' = req
                   /\ srv' = srv
                   /\ pendingRequests' = pendingRequests
                   /\ caller'[Route].pc = "idle"
                   /\ outcome'[Route].kind = "ok"
                   /\ outcome'[Route].value.fromCache
                   /\ outcome'[Route].value.yaml
                        = CacheData(cache,
                                    createCacheKey(FormParams(form.values))).yaml
          /\ (FormSettled /\ outcome[Route].kind = "ok")
                => form'.result = outcome[Route].value.yaml]_vars
    /\ [](\A i \in 1..Len(cache) :
             (cache[i].ttl = CACHE_TTL /\ now - cache[i].timestamp <= CACHE_TTL)
                => CacheHas(cache, cache[i].key, now))

\* the form made both calls, and at a later instant than the first result it
\* shows the document of the same values again, handed over by the
\* orchestrator's cache
C29_Witness ==
    /\ now = CACHE_TTL
    /\ calls = 2
    /\ outcome["c2"] = NoOutcome
    /\ caller["c2"].pc = "idle"
    /\ ~form.isLoading
    /\ form.values = form.submitted
    /\ form.result = "y1"
    /\ outcome[Route].kind = "ok"
    /\ outcome[Route].value.fromCache
    /\ outcome[Route].value.yaml = "y1"

\* C30: the translator returns a result for every text; for a text whose
\* detection has needsTranslation = false it is the text itself with
\* wasTranslated = false, and for a text that needs translation wasTranslated
\* says whether translatedText differs from the text, so that it is true for
\* the passthrough as for a translation.
C30_WasTranslatedFlag ==
    (/\ post.pc = "upstream"
     /\ post.body.userInput # NumberInput
     /\ Trim(post.body.userInput) # <<>>)
        => /\ post.translation.kind = "returned"
           /\ IF detectLanguage(post.body.userInput).needsTranslation
              THEN /\ post.translation.result.wasTranslated
                   /\ post.translation.result.translatedText
                         # post.body.userInput
              ELSE /\ ~post.translation.result.wasTranslated
                   /\ post.translation.result.translatedText
                         = post.body.userInput

=============================================================================
